---- MODULE Spec2Model ----
(***************************************************************************)
(* Model of the file-backed entity store (FileSystemManager) and of the    *)
(* HTTP route handlers that drive it.  Every await of the TypeScript code  *)
(* is a point where another request may run, so every store operation is   *)
(* split into steps at its awaits.  The file system is the shared state.   *)
(***************************************************************************)
EXTENDS Integers, Sequences, FiniteSets, TLC

\* ------------------------------------------------------------------ bounds
NumReqs == 2        \* request slots that may be in flight together
MaxOps == 3         \* operations issued one after another in SpecSeq
MaxTime == 2        \* values the clock (Date.now) takes

Reqs == 1..NumReqs

\* ------------------------------------------------------------ identifiers
\* Identifiers and file names are sequences of characters, so that the
\* substring test of loadSession is computed, not assumed.
\* Ids are opaque strings the callers choose (POST /api/clients takes
\* inputData.id), so a client and a session may carry the same id: IdS1.
IdC1 == <<"c", "1">>
IdS1 == <<"s", "1">>
IdS10 == <<"s", "1", "0">>
FwL1 == <<"L", "1">>
FwL2 == <<"L", "2">>
ClientIds == {IdC1, IdS1}
FrameworkIds == {FwL1}
AltFrameworkIds == {FwL2}
AllFrameworkIds == FrameworkIds \cup AltFrameworkIds
SessionIds == {IdS1, IdS10}
QuestionIds == {"q1", "q2", "q3"}

Undefined == "undefined"
NoReq == 0

\* The character codes of the characters the identifiers use.
CharCode ==
  [ch \in {".", "0", "1", "2", "L", "_", "c", "j", "n", "o", "s"} |->
     CASE ch = "." -> 46 [] ch = "0" -> 48 [] ch = "1" -> 49 [] ch = "2" -> 50
       [] ch = "L" -> 76 [] ch = "_" -> 95 [] ch = "c" -> 99 [] ch = "j" -> 106
       [] ch = "n" -> 110 [] ch = "o" -> 111 [] ch = "s" -> 115]

Ext == <<".", "j", "s", "o", "n">>
ProfileName == <<"p", "r", "o", "f", "i", "l", "e">> \o Ext
FileName(f, s) == f \o <<"_">> \o s \o Ext
SessionNames == {FileName(f, s) : f \in AllFrameworkIds, s \in SessionIds}
Paths == ClientIds \X (SessionNames \cup {ProfileName})

\* String.prototype.includes
Includes(hay, needle) ==
  \E i \in 0..(Len(hay) - Len(needle)) :
     SubSeq(hay, i + 1, i + Len(needle)) = needle

\* ------------------------------------------------------- bytes and records
\* The content of a path: no file, an empty (truncated) file, or a JSON text.
NoFile == [kind |-> "none"]
Truncated == [kind |-> "trunc"]

\* The properties the Client type declares optional (dba?, industry?, logo?).
OptionalKeys == {"industry"}

\* JSON.stringify drops the properties whose value is undefined.
Stringify(v) ==
  [kind |-> "json",
   val |-> [k \in {x \in DOMAIN v : x \in OptionalKeys => v[x] # Undefined}
              |-> v[k]]]

\* JSON.parse throws a SyntaxError on an empty text.
Parse(bytes) ==
  IF bytes.kind = "json" THEN [ok |-> TRUE, val |-> bytes.val]
  ELSE [ok |-> FALSE, val |-> [id |-> Undefined]]

\* Property read: a missing property reads as undefined.
Field(v, k) == IF k \in DOMAIN v THEN v[k] ELSE Undefined

\* Object spread { ...a, ...b }
Spread(a, b) ==
  [k \in DOMAIN a \cup DOMAIN b |-> IF k \in DOMAIN b THEN b[k] ELSE a[k]]

\* A timestamp of 0 stands for a missing (falsy) timestamp:
\* createdAt: entity.createdAt || now
StampedCreatedAt(v, t) == IF v.createdAt = 0 THEN t ELSE v.createdAt

Stamp(v, t) ==
  Spread(v, [updatedAt |-> t, createdAt |-> StampedCreatedAt(v, t)])

\* ------------------------------------------------------------ route helpers
\* Math.round(100 * a / b) for a >= 0, b > 0
RoundPct(a, b) == (200 * a + b) \div (2 * b)

Max(a, b) == IF a >= b THEN a ELSE b

\* calculateProgress of the response route: counts the responses whose answer
\* is set and is not 'unsure'.
calculateProgress(responses, totalQuestions) ==
  LET keys == Cardinality(DOMAIN responses)
      answeredQuestions ==
        Cardinality({q \in DOMAIN responses :
                       Field(responses[q], "answer") \notin {Undefined, "unsure"}})
  IN [totalQuestions |-> Max(totalQuestions, keys),
      answeredQuestions |-> answeredQuestions,
      completionPercentage |->
        IF totalQuestions > 0 THEN RoundPct(answeredQuestions, totalQuestions)
        ELSE IF answeredQuestions > 0
             THEN RoundPct(answeredQuestions, Max(keys, 1))
             ELSE 0]

NoResponses == [q \in {} |-> [answer |-> "yes"]]

\* calculateProgress of frameworkUtils, which the browser store uses: a
\* response is answered when its answer is not 'skipped', and skipped when
\* its answer is 'skipped' or it carries autoSkipped.
CountsAsSkipped(r) ==
  r.answer = "skipped" \/ ("autoSkipped" \in DOMAIN r /\ r.autoSkipped)

calculateProgressUtils(totalQuestions, responses) ==
  LET answeredQuestions ==
        Cardinality({q \in DOMAIN responses : responses[q].answer # "skipped"})
      skippedQuestions ==
        Cardinality({q \in DOMAIN responses : CountsAsSkipped(responses[q])})
  IN [totalQuestions |-> totalQuestions,
      answeredQuestions |-> answeredQuestions,
      skippedQuestions |-> skippedQuestions,
      percentage |->
        IF totalQuestions > 0
        THEN RoundPct(answeredQuestions + skippedQuestions, totalQuestions)
        ELSE 0]

\* The session POST /api/assessments builds (fields the model does not read
\* are left out).
NewSession(s, c, f, t) ==
  [id |-> s, clientId |-> c, frameworkId |-> f, mode |-> "detailed",
   status |-> "in-progress", createdAt |-> t, updatedAt |-> t,
   completedAt |-> 0, currentDomain |-> 0, currentQuestion |-> 0,
   responses |-> NoResponses,
   progress |-> [totalQuestions |-> 0, answeredQuestions |-> 0,
                 completionPercentage |-> 0]]

\* The client POST /api/clients builds; industry is inputData.industry, which
\* may be undefined.
NewClient(c, industry, t) ==
  [id |-> c, companyName |-> "acme", industry |-> industry,
   createdAt |-> t, updatedAt |-> t]

\* ------------------------------------------------------------ the directory scan
\* readdir returns the entries in an order the file system chooses: order.clients
\* is the order of the client directories, order.rev tells whether the files of
\* an assessments directory come in ascending or descending NameRank.
NameRank(n) ==
  Cardinality({m \in SessionNames :
                 \E i \in 1..Len(m) :
                   /\ i <= Len(n)
                   /\ SubSeq(m, 1, i - 1) = SubSeq(n, 1, i - 1)
                   /\ CharCode[m[i]] < CharCode[n[i]]})

ClientOrders ==
  {o \in [1..Cardinality(ClientIds) -> ClientIds] :
     \A c \in ClientIds : \E i \in DOMAIN o : o[i] = c}
ScanOrders == [clients : ClientOrders, rev : BOOLEAN]

Before(order, m, n) ==
  IF order.rev THEN NameRank(m) > NameRank(n) ELSE NameRank(m) < NameRank(n)

\* The files of clients/<c>/assessments whose name includes the session id.
Matching(fsys, c, sid) ==
  {n \in SessionNames : fsys[<<c, n>>] # NoFile /\ Includes(n, sid)}

FirstMatch(fsys, order, c, sid) ==
  CHOOSE n \in Matching(fsys, c, sid) :
    \A m \in Matching(fsys, c, sid) \ {n} : Before(order, n, m)

NotFound == [found |-> FALSE, reads |-> {}, val |-> [id |-> Undefined]]

\* loadSession: the first client directory, in scan order, whose first matching
\* file parses decides the result.  A missing assessments directory and a file
\* that does not parse are both caught by the inner catch, which goes on with
\* the next client directory.  reads is the set of paths readFile was called on.
RECURSIVE ScanFrom(_, _, _, _, _)
ScanFrom(fsys, ds, order, sid, i) ==
  IF i > Len(order.clients) THEN NotFound
  ELSE LET c == order.clients[i]
       IN IF c \notin ds \/ Matching(fsys, c, sid) = {}
          THEN ScanFrom(fsys, ds, order, sid, i + 1)
          ELSE LET n == FirstMatch(fsys, order, c, sid)
                   p == Parse(fsys[<<c, n>>])
                   rest == ScanFrom(fsys, ds, order, sid, i + 1)
               IN IF p.ok
                  THEN [found |-> TRUE, reads |-> {<<c, n>>}, val |-> p.val]
                  ELSE [rest EXCEPT !.reads = rest.reads \cup {<<c, n>>}]

loadSession(fsys, ds, order, sid) == ScanFrom(fsys, ds, order, sid, 1)

\* loadClient: ENOENT is absence, a SyntaxError of JSON.parse is rethrown.
loadClient(fsys, c) ==
  LET bytes == fsys[<<c, ProfileName>>]
  IN IF bytes = NoFile
     THEN [found |-> FALSE, threw |-> FALSE, val |-> [id |-> Undefined]]
     ELSE [found |-> Parse(bytes).ok, threw |-> ~Parse(bytes).ok,
           val |-> Parse(bytes).val]

\* ------------------------------------------------------ handleAdaptiveLogic
\* A question of the framework: its id, its control and its dependencies.
\* NoDependencies stands for a question that declares none; a list a
\* declaration leaves out is the empty list (both make the rule do nothing).
ControlOf(id) == <<"control", id>>
NoDependencies == [declared |-> FALSE]
NoQuestion == [id |-> Undefined]
Dependencies(autoFail, skipIfNo, skipIfNA, enables) ==
  [autoFail |-> autoFail, skipIfNo |-> skipIfNo, skipIfNA |-> skipIfNA,
   enables |-> enables]
Question(id, deps) == [id |-> id, control |-> ControlOf(id), dependencies |-> deps]

Elems(s) == {s[i] : i \in DOMAIN s}

\* q.dependencies?.enables
DepList(q, k) == IF q.dependencies = NoDependencies THEN <<>> ELSE q.dependencies[k]

\* allQuestions.find(q => q.id === questionId)
FindQuestion(allQuestions, questionId) ==
  LET I == {i \in DOMAIN allQuestions : allQuestions[i].id = questionId}
  IN IF I = {} THEN NoQuestion
     ELSE allQuestions[CHOOSE i \in I : \A j \in I : i <= j]

\* responses[k] = v on a Record<string, Answer>
Put(responses, k, v) ==
  [x \in DOMAIN responses \cup {k} |-> IF x = k THEN v ELSE responses[x]]

\* An optional boolean property of an Answer: undefined is falsy.
Flag(answer, k) == k \in DOMAIN answer /\ answer[k]

\* The Answer each rule writes for a target (the texts are kept as the parts
\* the template strings are built from).
AutoFailUnflagged(question, target, timestamp) ==
  [answer |-> "no",
   skipReason |-> <<"Auto-failed because", question.control, question.id, "is No">>,
   timestamp |-> timestamp, controlId |-> target.control, questionId |-> target.id,
   notes |-> <<"Automatically marked as 'No' based on dependency from",
               question.control>>]
AutoFailAnswer(question, target, timestamp) ==
  [answer |-> "no", autoFailed |-> TRUE,
   skipReason |-> <<"Auto-failed because", question.control, question.id, "is No">>,
   timestamp |-> timestamp, controlId |-> target.control, questionId |-> target.id,
   notes |-> <<"Automatically marked as 'No' based on dependency from",
               question.control>>,
   confidence |-> "high"]

SkipIfNoAnswer(question, target, timestamp) ==
  [answer |-> "skipped", autoSkipped |-> TRUE,
   skipReason |-> <<"Skipped because", question.control, question.id, "is No">>,
   timestamp |-> timestamp, controlId |-> target.control, questionId |-> target.id,
   notes |-> <<"Automatically skipped based on dependency from", question.control>>]

SkipIfNAAnswer(question, target, timestamp) ==
  [answer |-> "skipped", autoSkipped |-> TRUE,
   skipReason |-> <<"Skipped because", question.control, question.id,
                    "is Not Applicable">>,
   timestamp |-> timestamp, controlId |-> target.control, questionId |-> target.id,
   notes |-> <<"Automatically skipped - not applicable based on", question.control>>]

EnablesAnswer(question, target, timestamp) ==
  [answer |-> "skipped", autoSkipped |-> TRUE,
   skipReason |-> <<"Skipped because enabling control", question.control, "is No">>,
   timestamp |-> timestamp, controlId |-> target.control, questionId |-> target.id,
   notes |-> <<"No longer applicable - enabling control", question.control,
               "is not implemented">>]

Synthesize(rule, question, target, timestamp) ==
  CASE rule = "autoFail" -> AutoFailAnswer(question, target, timestamp)
    [] rule = "skipIfNo" -> SkipIfNoAnswer(question, target, timestamp)
    [] rule = "skipIfNA" -> SkipIfNAAnswer(question, target, timestamp)
    [] rule = "enables" -> EnablesAnswer(question, target, timestamp)

\* const targetQuestion = allQuestions.find(...);
\* if (targetQuestion) { updatedResponses[questionId] = ...; push(questionId) }
SetTarget(rule, questionId, question, allQuestions, timestamp, acc) ==
  LET targetQuestion == FindQuestion(allQuestions, questionId)
  IN IF targetQuestion = NoQuestion THEN acc
     ELSE [updatedResponses |->
             Put(acc.updatedResponses, questionId,
                 Synthesize(rule, question, targetQuestion, timestamp)),
           skippedQuestions |->
             IF rule = "autoFail" THEN acc.skippedQuestions
             ELSE Append(acc.skippedQuestions, questionId),
           autoFailedQuestions |->
             IF rule = "autoFail" THEN Append(acc.autoFailedQuestions, questionId)
             ELSE acc.autoFailedQuestions]

\* Rules 1-3: for (const questionId of deps.<rule>) { ... }
RECURSIVE ForEachTarget(_, _, _, _, _, _)
ForEachTarget(rule, list, question, allQuestions, timestamp, acc) ==
  IF list = <<>> THEN acc
  ELSE ForEachTarget(rule, Tail(list), question, allQuestions, timestamp,
                     SetTarget(rule, Head(list), question, allQuestions,
                               timestamp, acc))

\* existingResponse && !existingResponse.autoFailed && !existingResponse.autoSkipped
NeverManual(responses, questionId) == FALSE
ManuallyAnswered(responses, questionId) ==
  /\ questionId \in DOMAIN responses
  /\ ~Flag(responses[questionId], "autoFailed")
  /\ ~Flag(responses[questionId], "autoSkipped")

\* The other questions that enable questionId and are answered 'yes' in
\* currentResponses.
NoOtherEnablers(question, questionId, allQuestions, currentResponses) == <<>>
OtherEnablers(question, questionId, allQuestions, currentResponses) ==
  SelectSeq(allQuestions,
            LAMBDA q : /\ q.id # question.id
                       /\ questionId \in Elems(DepList(q, "enables"))
                       /\ q.id \in DOMAIN currentResponses
                       /\ currentResponses[q.id].answer = "yes")

\* Rule 4: for (const questionId of deps.enables) { ... }; existingResponse is
\* read from updatedResponses, the other enablers from currentResponses.
RECURSIVE ForEachEnabled(_, _, _, _, _, _)
ForEachEnabled(list, question, allQuestions, currentResponses, timestamp, acc) ==
  IF list = <<>> THEN acc
  ELSE LET questionId == Head(list)
           next ==
             IF ManuallyAnswered(acc.updatedResponses, questionId) THEN acc
             ELSE IF OtherEnablers(question, questionId, allQuestions,
                                   currentResponses) # <<>> THEN acc
             ELSE SetTarget("enables", questionId, question, allQuestions,
                            timestamp, acc)
       IN ForEachEnabled(Tail(list), question, allQuestions, currentResponses,
                         timestamp, next)

\* const updatedResponses = { ...currentResponses }
ShallowCopy(currentResponses) == currentResponses

\* timestamp is new Date().toISOString() at the call.
handleAdaptiveLogic(question, answer, allQuestions, currentResponses, timestamp) ==
  LET start == [updatedResponses |-> ShallowCopy(currentResponses),
                skippedQuestions |-> <<>>, autoFailedQuestions |-> <<>>]
      deps == question.dependencies
  IN IF deps = NoDependencies THEN start
     ELSE LET r1 == IF answer = "no"
                    THEN ForEachTarget("autoFail", deps.autoFail, question,
                                       allQuestions, timestamp, start)
                    ELSE start
              r2 == IF answer = "no"
                    THEN ForEachTarget("skipIfNo", deps.skipIfNo, question,
                                       allQuestions, timestamp, r1)
                    ELSE r1
              r3 == IF answer = "na"
                    THEN ForEachTarget("skipIfNA", deps.skipIfNA, question,
                                       allQuestions, timestamp, r2)
                    ELSE r2
          IN IF answer = "no"
             THEN ForEachEnabled(deps.enables, question, allQuestions,
                                 currentResponses, timestamp, r3)
             ELSE r3

\* The input object after the call: the rules write into the copy, so the
\* caller's map is what it was.
InputAliased(currentResponses, updatedResponses) == updatedResponses
InputAfter(currentResponses, updatedResponses) == currentResponses

\* ---------------------------------------------------- inputs of the resolver
\* Three questions; "q4" is an id the declarations may name that no question
\* of the set has.
Q1 == "q1"
Q2 == "q2"
Q3 == "q3"
GhostId == "q4"
TargetLists == {<<>>, <<Q2>>, <<Q3>>, <<GhostId, Q2, Q3>>}
NATargetLists == {<<>>, <<GhostId, Q2, Q3>>}

\* The declarations of q1 are every combination of the target lists (skipIfNA,
\* the one rule of the answer 'na', names all targets or none); q2 and q3
\* declare what makes them another enabler, a second hop, or a cycle.
Q1Deps ==
  {NoDependencies}
    \cup {Dependencies(af, sn, sna, en) :
            af \in TargetLists, sn \in TargetLists, sna \in NATargetLists,
            en \in TargetLists}
Q2Deps == {NoDependencies, Dependencies(<<>>, <<>>, <<>>, <<Q3>>)}
Q3Deps == {NoDependencies, Dependencies(<<>>, <<>>, <<>>, <<Q2>>),
           Dependencies(<<Q2>>, <<>>, <<Q2>>, <<Q1>>)}
QuestionSets ==
  {<<Question(Q1, d1), Question(Q2, d2), Question(Q3, d3)>> :
     d1 \in Q1Deps, d2 \in Q2Deps, d3 \in Q3Deps}

\* An answer entered by hand.
Manual(q, kind, timestamp) ==
  [answer |-> kind, timestamp |-> timestamp, controlId |-> ControlOf(q),
   questionId |-> q]

\* What a question may hold before the call: nothing, an answer entered by
\* hand, or an answer an earlier call synthesized for it (with q1 as trigger;
\* an auto-failed answer is what the second call finds).
AnswerStates(q) ==
  IF q = Q1 THEN {Manual(q, "yes", 1)}
  ELSE {Manual(q, "yes", 1), Manual(q, "no", 1),
        SkipIfNoAnswer(Question(Q1, NoDependencies), Question(q, NoDependencies), 1)}
ResponseMaps ==
  UNION {{f \in [S -> UNION {AnswerStates(q) : q \in S}] :
            \A q \in S : f[q] \in AnswerStates(q)} :
         S \in SUBSET {Q1, Q2, Q3}}
TriggerAnswers == {"yes", "no", "na"}

\* ------------------------------------------------------------------- state
VARIABLES
  files,           \* path -> bytes: the data directory
  dirs,            \* the client ids whose directory tree exists
  order,           \* the order readdir enumerates in
  now,             \* Date.now()
  clientMutexes,   \* Map<string, Mutex>: client id -> Mutex object (0: no entry)
  sessionMutexes,  \* Map<string, Mutex>: session id -> Mutex object (0: no entry)
  mutexes,         \* Mutex object -> [holder, queue]
  op,              \* the request a slot runs
  call,            \* the store method a request is in
  pc,              \* the await a request is at
  arg,             \* the entity a request saves, or the one deleteSession loaded
  res,             \* the result of a request
  mtx,             \* the Mutex object withLock got for a request
  torn,            \* the request read a file another request was writing
  wrote,           \* the request has changed the files
  prev,            \* SpecSeq: the operation before the current one
  nops,            \* SpecSeq: operations issued so far
  allQuestions,    \* the browser store: the questions of the bound framework
  currentSession,  \* the browser store: the session being assessed
  timers,          \* the browser: the auto-save timers setResponse has set
  unsavedChanges,  \* the browser store: unsavedChanges
  navigation,      \* the browser store: navigation.currentDomain / currentQuestion
  currentDomains,  \* the browser store: the question ids of each domain
  run              \* the last call of handleAdaptiveLogic: inputs and result

\* The state of the browser, which the server never touches.
browser == <<allQuestions, currentSession, timers, unsavedChanges, navigation,
             currentDomains, run>>

vars == <<files, dirs, order, now, clientMutexes, sessionMutexes, mutexes, op,
          call, pc, arg, res, mtx, torn, wrote, prev, nops, browser>>

Gens == 1..(NumReqs + MaxOps)
Mutexes == ({"client"} \X ClientIds \X Gens) \cup ({"session"} \X SessionIds \X Gens)
NoMutex == <<>>
NoEntity == [id |-> Undefined]
NoOp == [kind |-> "none"]
NoRes == [status |-> "pending", found |-> FALSE, val |-> NoEntity]
NoQuestions == <<>>
NoRun == [calls |-> 0]
\* navigation: { currentDomain: 0, currentQuestion: 0 }; currentDomains: null
StartCursor == [currentDomain |-> 0, currentQuestion |-> 0]
NoDomains == <<"null">>

ClientCalls == {"saveClient", "deleteClient"}
SessionCalls == {"saveSession", "deleteSession"}
SaveCalls == {"saveClient", "saveSession"}
RouteKinds == {"PostSession", "PostResponse", "PutSession", "DeleteSession",
               "GetSession",
               "PutClient", "DeleteClient", "GetClient"}

\* ---------------------------------------------------------------- withLock
\* if (!mutexMap.has(key)) mutexMap.set(key, new Mutex()): the object a key
\* maps to after the test, given the one it mapped to before (0: none).
NewMutexAlways(entry) == entry + 1
MutexEntry(entry) == IF entry = 0 THEN 1 ELSE entry

\* mutex.runExclusive(operation) releases in a finally block: on return and
\* on throw.
ReleaseOnReturnOnly(threw) == ~threw
RunExclusiveReleases(threw) == TRUE

\* The key a store method locks: client.id, session.id, or the id it is given.
LockKey(r) == IF call[r] \in SaveCalls THEN arg[r].id ELSE op[r].id
LockMap(r) == IF call[r] \in ClientCalls THEN "client" ELSE "session"

\* The first await of the operation passed to withLock.
BodyEntry(c) ==
  CASE c \in SaveCalls -> "ensure"
    [] c = "deleteClient" -> "rm"
    [] c = "deleteSession" -> "scan"

\* The directory and the file saveClient / saveSession write.
WriteDir(r) == IF call[r] = "saveClient" THEN arg[r].id ELSE arg[r].clientId
WritePath(r) ==
  IF call[r] = "saveClient" THEN <<arg[r].id, ProfileName>>
  ELSE <<arg[r].clientId, FileName(arg[r].frameworkId, arg[r].id)>>

IsRoute(r) == op[r].kind \in RouteKinds

\* What a request reports: a store method returns or throws, a route handler
\* answers 200 (POST /api/assessments: 201) or, from its catch block, 500.
Outcome(r, threw) ==
  IF IsRoute(r)
  THEN (IF threw THEN "500" ELSE IF op[r].kind = "PostSession" THEN "201" ELSE "200")
  ELSE (IF threw THEN "throw" ELSE "ok")

\* The operation passed to withLock ends (returns or throws): runExclusive
\* releases the Mutex, which hands it to the head of its queue.
Finish(r, threw) ==
  LET m == mtx[r]
      q == mutexes[m].queue
      releases == RunExclusiveReleases(threw)
      next == IF q = <<>> THEN NoReq ELSE Head(q)
  IN /\ mutexes' = IF releases
                   THEN [mutexes EXCEPT
                           ![m] = [holder |-> next,
                                   queue |-> IF q = <<>> THEN q ELSE Tail(q)]]
                   ELSE mutexes
     /\ pc' = [x \in Reqs |->
                 IF x = r THEN "done"
                 ELSE IF releases /\ x = next THEN BodyEntry(call[x])
                 ELSE pc[x]]
     /\ res' = [res EXCEPT ![r].status = Outcome(r, threw)]

\* withLock: look the Mutex up (creating it on first use) and runExclusive:
\* a free Mutex is taken at once, a held one queues the caller.
WithLock(r) ==
  /\ pc[r] = "withLock"
  /\ LET key == LockKey(r)
         map == IF LockMap(r) = "client" THEN clientMutexes ELSE sessionMutexes
         entry == MutexEntry(map[key])
         m == <<LockMap(r), key, entry>>
     IN /\ IF LockMap(r) = "client"
           THEN /\ clientMutexes' = [clientMutexes EXCEPT ![key] = entry]
                /\ UNCHANGED sessionMutexes
           ELSE /\ sessionMutexes' = [sessionMutexes EXCEPT ![key] = entry]
                /\ UNCHANGED clientMutexes
        /\ mtx' = [mtx EXCEPT ![r] = m]
        /\ IF mutexes[m].holder = NoReq
           THEN /\ mutexes' = [mutexes EXCEPT ![m].holder = r]
                /\ pc' = [pc EXCEPT ![r] = BodyEntry(call[r])]
           ELSE /\ mutexes' = [mutexes EXCEPT ![m].queue = Append(@, r)]
                /\ pc' = [pc EXCEPT ![r] = "queued"]
  /\ UNCHANGED <<files, dirs, order, now, op, call, arg, res, torn, wrote,
                 prev, nops, browser>>

\* ------------------------------------------------- saveClient / saveSession
\* ensureDirectory: fs.access, and fs.mkdir(recursive) when it fails.
Ensure(r) ==
  /\ pc[r] = "ensure"
  /\ dirs' = dirs \cup {WriteDir(r)}
  /\ pc' = [pc EXCEPT ![r] = "open"]
  /\ UNCHANGED <<files, order, now, clientMutexes, sessionMutexes, mutexes, op,
                 call, arg, res, mtx, torn, wrote, prev, nops, browser>>

\* The entity is stamped, then fs.writeFile opens the file with flag 'w', which
\* creates or truncates it; the open fails with ENOENT when the directory has
\* been removed since ensureDirectory.
Open(r) ==
  /\ pc[r] = "open"
  /\ arg' = [arg EXCEPT ![r] = Stamp(arg[r], now)]
  /\ IF WriteDir(r) \in dirs
     THEN /\ files' = [files EXCEPT ![WritePath(r)] = Truncated]
          /\ wrote' = [wrote EXCEPT ![r] = TRUE]
          /\ pc' = [pc EXCEPT ![r] = "write"]
          /\ UNCHANGED <<mutexes, res>>
     ELSE /\ Finish(r, TRUE)
          /\ UNCHANGED <<files, wrote>>
  /\ UNCHANGED <<dirs, order, now, clientMutexes, sessionMutexes, op, call,
                 mtx, torn, prev, nops, browser>>

\* fs.writeFile writes the text into the open file, or fails with an I/O error
\* (ENOSPC, EIO) and leaves the file empty.  A file unlinked since the open
\* takes the text with it.
Write(r) ==
  /\ pc[r] = "write"
  /\ \E ok \in BOOLEAN :
       IF ok
       THEN /\ files' = IF files[WritePath(r)] = NoFile THEN files
                        ELSE [files EXCEPT ![WritePath(r)] = Stringify(arg[r])]
            /\ Finish(r, FALSE)
       ELSE /\ UNCHANGED files
            /\ Finish(r, TRUE)
  /\ UNCHANGED <<dirs, order, now, clientMutexes, sessionMutexes, op, call,
                 arg, mtx, torn, wrote, prev, nops, browser>>

\* ------------------------------------------------------------ deleteClient
\* fs.rm(clientDir, { recursive, force }): the profile, the assessments
\* directory and every session file in it go.
RemoveTree(fsys, c) ==
  [p \in Paths |-> IF p[1] = c THEN NoFile ELSE fsys[p]]

Rm(r) ==
  /\ pc[r] = "rm"
  /\ files' = RemoveTree(files, op[r].id)
  /\ dirs' = dirs \ {op[r].id}
  /\ wrote' = [wrote EXCEPT ![r] = files' # files]
  /\ Finish(r, FALSE)
  /\ UNCHANGED <<order, now, clientMutexes, sessionMutexes, op, call, arg, mtx,
                 torn, prev, nops, browser>>

\* ----------------------------------------------------------- deleteSession
\* A reader tears when a file it reads is empty because a writeFile on it is
\* between its open and its write.
Tears(reads) ==
  \E p \in reads, w \in Reqs :
     files[p] = Truncated /\ pc[w] = "write" /\ WritePath(w) = p

\* const session = await this.loadSession(sessionId); if (!session) return;
Scan(r) ==
  /\ pc[r] = "scan"
  /\ LET l == loadSession(files, dirs, order, op[r].id)
     IN /\ torn' = [torn EXCEPT ![r] = Tears(l.reads)]
        /\ IF l.found
           THEN /\ arg' = [arg EXCEPT ![r] = l.val]
                /\ pc' = [pc EXCEPT ![r] = "unlink"]
                /\ UNCHANGED <<mutexes, res>>
           ELSE /\ Finish(r, FALSE)
                /\ UNCHANGED arg
  /\ UNCHANGED <<files, dirs, order, now, clientMutexes, sessionMutexes, op,
                 call, mtx, wrote, prev, nops, browser>>

\* fs.unlink of <session.clientId>/assessments/<session.frameworkId>_<sessionId>.json;
\* ENOENT is ignored.
UnlinkPath(r) == <<arg[r].clientId, FileName(arg[r].frameworkId, op[r].id)>>

Unlink(r) ==
  /\ pc[r] = "unlink"
  /\ files' = [files EXCEPT ![UnlinkPath(r)] = NoFile]
  /\ wrote' = [wrote EXCEPT ![r] = files' # files]
  /\ Finish(r, FALSE)
  /\ UNCHANGED <<dirs, order, now, clientMutexes, sessionMutexes, op, call,
                 arg, mtx, torn, prev, nops, browser>>

\* ------------------------------------------------- loadClient / loadSession
ClientLoad(c) ==
  LET l == loadClient(files, c)
  IN [found |-> l.found, threw |-> l.threw, val |-> l.val,
      reads |-> IF files[<<c, ProfileName>>] = NoFile THEN {}
                ELSE {<<c, ProfileName>>}]

SessionLoad(sid) ==
  LET l == loadSession(files, dirs, order, sid)
  IN [found |-> l.found, threw |-> FALSE, val |-> l.val, reads |-> l.reads]

\* A store-level load: the value, null (found = FALSE) or a thrown error.
Load(r) ==
  /\ pc[r] = "load"
  /\ LET l == IF call[r] = "loadClient" THEN ClientLoad(op[r].id)
              ELSE SessionLoad(op[r].id)
     IN /\ res' = [res EXCEPT ![r] = [status |-> Outcome(r, l.threw),
                                      found |-> l.found, val |-> l.val]]
        /\ torn' = [torn EXCEPT ![r] = Tears(l.reads)]
  /\ pc' = [pc EXCEPT ![r] = "done"]
  /\ UNCHANGED <<files, dirs, order, now, clientMutexes, sessionMutexes,
                 mutexes, op, call, arg, mtx, wrote, prev, nops, browser>>

\* --------------------------------------------- listClients / listClientSessions
ListCalls == {"listClients", "listClientSessions"}

\* new Date(a.updatedAt || a.createdAt || 0).getTime()
\* (a timestamp of 0 stands for a missing one)
SortTime(v) == IF v.updatedAt # 0 THEN v.updatedAt ELSE v.createdAt

\* Array.prototype.sort((a, b) => bTime - aTime): the sort is stable, records
\* whose times are equal keep the order they were pushed in.
RECURSIVE InsertDesc(_, _)
InsertDesc(x, s) ==
  IF s = <<>> THEN <<x>>
  ELSE IF SortTime(Head(s)) <= SortTime(x) THEN <<x>> \o s
  ELSE <<Head(s)>> \o InsertDesc(x, Tail(s))

RECURSIVE SortDesc(_)
SortDesc(s) == IF s = <<>> THEN <<>> ELSE InsertDesc(Head(s), SortDesc(Tail(s)))

\* The loop body of a listing: a record that does not parse is logged and
\* skipped (an absent profile.json is skipped as well).
FailOnCorrupt(blobs) ==
  IF \E i \in DOMAIN blobs : ~Parse(blobs[i]).ok THEN <<>> ELSE blobs
SkipCorrupt(blobs) == SelectSeq(blobs, LAMBDA b : Parse(b).ok)

RECURSIVE ParseAll(_)
ParseAll(blobs) ==
  IF blobs = <<>> THEN <<>>
  ELSE <<Parse(Head(blobs)).val>> \o ParseAll(Tail(blobs))

\* fs.readdir(clientsDir): the client directories that exist, in scan order.
ClientDirs(ds, ord) == SelectSeq(ord.clients, LAMBDA c : c \in ds)

\* fs.readdir(assessmentsDir): the files of a client's assessments directory,
\* in scan order (every file name ends with '.json').
AssessmentFiles(fsys, ord, c) ==
  LET S == {n \in SessionNames : fsys[<<c, n>>] # NoFile}
  IN CHOOSE s \in [1..Cardinality(S) -> S] :
       /\ \A n \in S : \E i \in DOMAIN s : s[i] = n
       /\ \A i, j \in DOMAIN s : i < j => Before(ord, s[i], s[j])

listClients(fsys, ds, ord) ==
  LET clientDirs == ClientDirs(ds, ord)
      blobs == [i \in DOMAIN clientDirs |-> fsys[<<clientDirs[i], ProfileName>>]]
  IN SortDesc(ParseAll(SkipCorrupt(blobs)))

listClientSessions(fsys, ord, c) ==
  LET assessmentFiles == AssessmentFiles(fsys, ord, c)
      blobs == [i \in DOMAIN assessmentFiles |-> fsys[<<c, assessmentFiles[i]>>]]
  IN SortDesc(ParseAll(SkipCorrupt(blobs)))

\* A listing call: listClientSessions first makes sure the assessments
\* directory of the client exists.
List(r) ==
  /\ pc[r] = "list"
  /\ IF call[r] = "listClients"
     THEN /\ res' = [res EXCEPT ![r] = [status |-> Outcome(r, FALSE), found |-> TRUE,
                                        val |-> listClients(files, dirs, order)]]
          /\ UNCHANGED dirs
     ELSE /\ res' = [res EXCEPT ![r] =
                      [status |-> Outcome(r, FALSE), found |-> TRUE,
                       val |-> listClientSessions(files, order, op[r].id)]]
          /\ dirs' = dirs \cup {op[r].id}
  /\ pc' = [pc EXCEPT ![r] = "done"]
  /\ UNCHANGED <<files, order, now, clientMutexes, sessionMutexes, mutexes, op,
                 call, arg, mtx, torn, wrote, prev, nops, browser>>

\* ----------------------------------------------------------- route handlers
ClientRoutes == {"PutClient", "DeleteClient", "GetClient"}

\* a.k || fallback, for a property that is a non-empty text when present
OrElse(a, k, fallback) == IF k \in DOMAIN a THEN a[k] ELSE fallback

\* POST /api/assessments/[id]/response: the record the route stores for an
\* answer.  It is built from the properties the route names; any other
\* property of the payload (autoFailed, autoSkipped, skipReason) is left out.
\* (Properties that take the same default in every request are left out of
\* the model: domain, question, evidence, followUp*, homework*, remediation.)
responseData(questionId, answer, t) ==
  [controlId |-> OrElse(answer, "controlId", <<questionId>>),
   answer |-> Field(answer, "answer"),
   confidence |-> OrElse(answer, "confidence", "medium"),
   notes |-> OrElse(answer, "notes", <<>>),
   timestamp |-> t,
   answeredBy |-> OrElse(answer, "answeredBy", "consultant"),
   questionId |-> questionId]

\* POST /api/assessments/[id]/response: session.responses[questionId] = ...,
\* progress recalculated, updatedAt set.
SetAnswer(session, q, a, t) ==
  LET responses == [k \in DOMAIN session.responses \cup {q} |->
                      IF k = q THEN responseData(q, a, t)
                      ELSE session.responses[k]]
  IN [session EXCEPT
        !.responses = responses,
        !.progress = calculateProgress(responses, session.progress.totalQuestions),
        !.updatedAt = t]

\* PUT: { ...existing, ...updates, id: params.id, updatedAt: now }
Merge(existing, updates, id, t) ==
  Spread(Spread(existing, updates), [id |-> id, updatedAt |-> t])

\* The part of a route handler up to its call of a locking store method: the
\* load, the 404 / 500 answers, and the value to save.  POST /api/assessments
\* loads the client and builds a new session under the id it has generated.
Route(r) ==
  /\ pc[r] = "route"
  /\ LET k == op[r].kind
         l == IF k = "PostSession" THEN ClientLoad(op[r].clientId)
              ELSE IF k \in ClientRoutes THEN ClientLoad(op[r].id)
              ELSE SessionLoad(op[r].id)
         answer == IF l.threw THEN "500" ELSE IF l.found THEN "200" ELSE "404"
     IN IF k = "PostResponse" /\ ~({"q", "a"} \subseteq DOMAIN op[r])
        THEN \* if (!questionId || !answer) return 400
             /\ res' = [res EXCEPT ![r].status = "400"]
             /\ pc' = [pc EXCEPT ![r] = "done"]
             /\ UNCHANGED <<call, arg, torn>>
        ELSE
        /\ torn' = [torn EXCEPT ![r] = Tears(l.reads)]
        /\ IF answer # "200" \/ k \in {"GetClient", "GetSession"}
           THEN /\ res' = [res EXCEPT ![r] = [status |-> answer,
                                              found |-> l.found, val |-> l.val]]
                /\ pc' = [pc EXCEPT ![r] = "done"]
                /\ UNCHANGED <<call, arg>>
           ELSE /\ res' = [res EXCEPT
                             ![r].found = TRUE,
                             \* PUT answers with the merged record
                             ![r].val = IF k \in {"PutSession", "PutClient"}
                                        THEN Merge(l.val, op[r].upd, op[r].id, now)
                                        ELSE @]
                /\ pc' = [pc EXCEPT ![r] = "withLock"]
                /\ call' = [call EXCEPT ![r] =
                     CASE k = "PostSession" -> "saveSession"
                       [] k = "PostResponse" -> "saveSession"
                       [] k = "PutSession" -> "saveSession"
                       [] k = "PutClient" -> "saveClient"
                       [] k = "DeleteSession" -> "deleteSession"
                       [] k = "DeleteClient" -> "deleteClient"]
                /\ arg' = [arg EXCEPT ![r] =
                     CASE k = "PostSession" ->
                            NewSession(op[r].id, op[r].clientId,
                                       op[r].frameworkId, now)
                       [] k = "PostResponse" ->
                            SetAnswer(l.val, op[r].q, op[r].a, now)
                       [] k \in {"PutSession", "PutClient"} ->
                            Merge(l.val, op[r].upd, op[r].id, now)
                       [] OTHER -> arg[r]]
  /\ UNCHANGED <<files, dirs, order, now, clientMutexes, sessionMutexes,
                 mutexes, op, mtx, wrote, prev, nops, browser>>

\* ------------------------------------------------------------------ requests
Answers == {Manual(Q1, "yes", 1)}
SessionUpdates ==
  {[status |-> "paused"], [mode |-> "quick"], [clientId |-> IdS1]}
    \cup {[frameworkId |-> f] : f \in AltFrameworkIds}
ClientUpdates == {[companyName |-> "apex"], [industry |-> "defense"]}

RouteOps ==
  [kind : {"PostResponse"}, id : SessionIds, q : QuestionIds, a : Answers]
    \cup [kind : {"PutSession"}, id : SessionIds, upd : SessionUpdates]
    \cup [kind : {"DeleteSession", "GetSession"}, id : SessionIds]
    \cup [kind : {"PutClient"}, id : ClientIds, upd : ClientUpdates]
    \cup [kind : {"DeleteClient", "GetClient"}, id : ClientIds]

ClientValues == {NewClient(c, i, 0) : c \in ClientIds, i \in {Undefined, "defense"}}
SessionValues ==
  {NewSession(s, c, f, 0) : s \in SessionIds, c \in ClientIds, f \in FrameworkIds}

MutatingOps ==
  [kind : {"saveClient"}, val : ClientValues]
    \cup [kind : {"saveSession"}, val : SessionValues]
    \cup [kind : {"deleteClient"}, id : ClientIds]
    \cup [kind : {"deleteSession"}, id : SessionIds]
LoadOps ==
  [kind : {"loadClient"}, id : ClientIds]
    \cup [kind : {"loadSession"}, id : SessionIds]
StoreOps == MutatingOps \cup LoadOps

\* The locking store methods on one id string, IdS1, which names a client and a
\* session, and on a second session of that client.
GuardOps ==
  {o \in MutatingOps :
     \/ o.kind \in {"deleteClient", "deleteSession"} /\ o.id = IdS1
     \/ o.kind = "saveClient" /\ o.val = NewClient(IdS1, Undefined, 0)
     \/ o.kind = "saveSession" /\ o.val.clientId = IdS1}

\* A request slot takes a request; the slots fill in order.
Begin(r, o) ==
  /\ op' = [op EXCEPT ![r] = o]
  /\ res' = [res EXCEPT ![r] = NoRes]
  /\ mtx' = [mtx EXCEPT ![r] = NoMutex]
  /\ torn' = [torn EXCEPT ![r] = FALSE]
  /\ wrote' = [wrote EXCEPT ![r] = FALSE]
  /\ call' = [call EXCEPT ![r] = IF o.kind \in RouteKinds THEN "none" ELSE o.kind]
  /\ arg' = [arg EXCEPT ![r] = IF o.kind \in SaveCalls THEN o.val ELSE NoEntity]
  /\ pc' = [pc EXCEPT ![r] =
              IF o.kind \in RouteKinds THEN "route"
              ELSE IF o.kind \in {"loadClient", "loadSession"} THEN "load"
              ELSE IF o.kind \in ListCalls THEN "list"
              ELSE "withLock"]
  /\ UNCHANGED <<files, dirs, order, now, clientMutexes, sessionMutexes, mutexes>>

\* The calls of one caller that saves, deletes and lists: sessions of client
\* IdC1, new (createdAt not set) or loaded earlier (createdAt 1), and both
\* clients.
ListOps ==
  [kind : {"saveSession"},
   val : {NewSession(s, IdC1, FwL1, t) : s \in SessionIds, t \in 0..1}]
    \cup [kind : {"saveClient"}, val : {NewClient(c, Undefined, 0) : c \in ClientIds}]
    \cup [kind : {"deleteClient"}, id : {IdS1}]
    \cup [kind : {"deleteSession"}, id : {IdS1}]
    \cup [kind : {"listClients"}, id : {Undefined}]
    \cup [kind : {"listClientSessions"}, id : ClientIds]

\* The POST .../response requests another HTTP client sends for the session
\* the browser has open: well-formed for a question of the framework or for
\* an id it does not have, or without questionId, or without answer.
AnswerOps ==
  [kind : {"PostResponse"}, id : {IdS1}, q : {Q2, GhostId}, a : Answers]
    \cup [kind : {"PostResponse"}, id : {IdS1}, q : {Q2}]
    \cup [kind : {"PostResponse"}, id : {IdS1}, a : Answers]

\* The requests of SpecProgress: sessions are created for client IdC1, answers
\* are set and a session is paused.
ProgressAnswers == {[answer |-> k] : k \in {"yes", "skipped"}}
ProgressOps ==
  [kind : {"PostSession"}, id : SessionIds, clientId : {IdC1}, frameworkId : {FwL1}]
    \cup [kind : {"PostResponse"}, id : SessionIds, q : {Q1, Q2}, a : ProgressAnswers]
    \cup [kind : {"PutSession"}, id : SessionIds, upd : {[status |-> "paused"]}]

\* session_<Date.now()>_<random>: the id POST /api/assessments generates is
\* the id of no stored session.
FreshId(s) ==
  \A c \in ClientIds, f \in AllFrameworkIds : files[<<c, FileName(f, s)>>] = NoFile

InOrder(r) == IF r = 1 THEN TRUE ELSE pc[r - 1] # "idle"

\* An HTTP request arrives.
StartRoute(r) ==
  /\ pc[r] = "idle" /\ InOrder(r)
  /\ \E o \in RouteOps : Begin(r, o)
  /\ UNCHANGED <<prev, nops, browser>>

\* A caller invokes a store method.
StartStore(r) ==
  /\ pc[r] = "idle" /\ InOrder(r)
  /\ \E o \in MutatingOps : Begin(r, o)
  /\ UNCHANGED <<prev, nops, browser>>

\* Callers contend for the Mutexes of one id string.
StartGuard(r) ==
  /\ pc[r] = "idle" /\ InOrder(r)
  /\ \E o \in GuardOps : Begin(r, o)
  /\ UNCHANGED <<prev, nops, browser>>

\* SpecSeq: one caller invokes the store methods one after another.
StartSeq ==
  /\ pc[1] \in {"idle", "done"}
  /\ nops < MaxOps
  /\ \E o \in StoreOps : Begin(1, o)
  /\ prev' = [op |-> op[1], res |-> res[1]]
  /\ nops' = nops + 1
  /\ UNCHANGED browser

\* SpecAnswer: an HTTP client posts an answer.
StartAnswer(r) ==
  /\ pc[r] = "idle" /\ \A x \in Reqs : x < r => pc[x] # "idle"
  /\ nops < MaxOps
  /\ \E o \in AnswerOps : Begin(r, o)
  /\ nops' = nops + 1
  /\ UNCHANGED <<prev, browser>>

\* SpecProgress: one client sends its requests one after another.
StartProgress ==
  /\ pc[1] \in {"idle", "done"}
  /\ nops < MaxOps
  /\ \E o \in ProgressOps :
       /\ o.kind = "PostSession" => FreshId(o.id)
       /\ Begin(1, o)
  /\ prev' = [op |-> op[1], res |-> res[1]]
  /\ nops' = nops + 1
  /\ UNCHANGED browser

\* SpecList: one caller saves, deletes and lists.
StartList ==
  /\ pc[1] \in {"idle", "done"}
  /\ nops < MaxOps
  /\ \E o \in ListOps : Begin(1, o)
  /\ prev' = [op |-> op[1], res |-> res[1]]
  /\ nops' = nops + 1
  /\ UNCHANGED browser

Tick ==
  /\ now < MaxTime
  /\ now' = now + 1
  /\ UNCHANGED <<files, dirs, order, clientMutexes, sessionMutexes, mutexes, op,
                 call, pc, arg, res, mtx, torn, wrote, prev, nops, browser>>

\* ------------------------------------------------------- the browser store
\* setResponse: { ...currentSession.responses, [questionId]: { ...answer,
\* timestamp } }
OnlyNewResponse(responses, questionId, answer, t) ==
  Put(NoResponses, questionId, Spread(answer, [timestamp |-> t]))
UpdatedResponses(responses, questionId, answer, t) ==
  Put(responses, questionId, Spread(answer, [timestamp |-> t]))

\* What the user may enter: an answer to a question of the framework or to an
\* id the framework does not have.
EnteredAnswers ==
  {Manual(q, kind, 0) : q \in {Q1, GhostId}, kind \in TriggerAnswers}

\* setResponse(questionId, answer): returns at once when no session is open or
\* the framework has no such question; otherwise stores the answer, runs the
\* resolver on the result, and sets the auto-save timer, whose callback keeps
\* the session id, the question id and the answer of that question.
setResponse(questionId, answer) ==
  LET question == FindQuestion(allQuestions, questionId)
      updatedResponses ==
        UpdatedResponses(currentSession.responses, questionId, answer, now)
      responsesWithLogic ==
        handleAdaptiveLogic(question, answer.answer, allQuestions,
                            updatedResponses, now).updatedResponses
  IN IF currentDomains = NoDomains \/ question = NoQuestion
     THEN UNCHANGED <<currentSession, unsavedChanges, timers>>
     ELSE /\ currentSession' = [currentSession EXCEPT
                                  !.responses = responsesWithLogic,
                                  !.updatedAt = now]
          /\ unsavedChanges' = TRUE
          /\ timers' = Append(timers,
                              [id |-> currentSession.id, q |-> questionId,
                               a |-> responsesWithLogic[questionId]])

\* The user answers a question.
SetResponse ==
  /\ nops < MaxOps
  /\ currentSession # NoEntity
  /\ \E answer \in EnteredAnswers : setResponse(answer.questionId, answer)
  /\ nops' = nops + 1
  /\ UNCHANGED <<files, dirs, order, now, clientMutexes, sessionMutexes, mutexes,
                 op, call, pc, arg, res, mtx, torn, wrote, prev, allQuestions,
                 navigation, currentDomains, run>>

\* skipQuestion(questionId, reason): the store builds an answer 'skipped'
\* with autoSkipped: true and the reason it is given as skipReason, and passes
\* it to setResponse.  The reason is a text the caller chooses; it may be
\* empty.
SkipReasons == {<<>>, <<"not relevant to this client">>}
skippedAnswer(questionId, reason, t) ==
  [answer |-> "skipped", skipReason |-> reason, autoSkipped |-> TRUE,
   timestamp |-> t, controlId |-> questionId, questionId |-> questionId]

SkipQuestion ==
  /\ nops < MaxOps
  /\ currentSession # NoEntity
  /\ \E questionId \in {Q1, Q2, GhostId}, reason \in SkipReasons :
       setResponse(questionId, skippedAnswer(questionId, reason, now))
  /\ nops' = nops + 1
  /\ UNCHANGED <<files, dirs, order, now, clientMutexes, sessionMutexes, mutexes,
                 op, call, pc, arg, res, mtx, torn, wrote, prev, allQuestions,
                 navigation, currentDomains, run>>

\* The oldest timer fires (all timers wait the same 1000 ms): its callback
\* sends POST /api/assessments/<id>/response with { questionId, answer }.
Fire(r) ==
  /\ timers # <<>>
  /\ pc[r] = "idle" /\ \A x \in Reqs : x < r => pc[x] # "idle"
  /\ Begin(r, [kind |-> "PostResponse", id |-> Head(timers).id,
               q |-> Head(timers).q, a |-> Head(timers).a, from |-> "timer"])
  /\ timers' = Tail(timers)
  /\ UNCHANGED <<prev, nops, allQuestions, currentSession, unsavedChanges,
                 navigation, currentDomains, run>>

\* The browser gets the response of a request it sent.  The timer callback
\* of setResponse takes, on 200, the progress the server computed and clears
\* unsavedChanges; saveSession takes, on 200, the session the server answers
\* with as currentSession and clears unsavedChanges.  On any other status
\* both leave the store as it is.  The request of any other client just ends.
Reply(r) ==
  /\ pc[r] = "done"
  /\ IF "from" \in DOMAIN op[r] /\ res[r].status = "200"
     THEN /\ currentSession' =
               IF op[r].from = "timer"
               THEN [currentSession EXCEPT !.progress = arg[r].progress]
               ELSE res[r].val
          /\ unsavedChanges' = FALSE
     ELSE UNCHANGED <<currentSession, unsavedChanges>>
  /\ pc' = [pc EXCEPT ![r] = "idle"]
  /\ UNCHANGED <<files, dirs, order, now, clientMutexes, sessionMutexes, mutexes,
                 op, call, arg, res, mtx, torn, wrote, prev, nops, allQuestions,
                 timers, navigation, currentDomains, run>>

\* ------------------------------------------------------------- navigation
\* The lowest request slot that is free.
FreeSlot(r) == pc[r] = "idle" /\ \A x \in Reqs : x < r => pc[x] # "idle"

\* saveSession of the store, up to its fetch: PUT /api/assessments/<id> with
\* { ...currentSession, updatedAt, progress: calculateProgress(...) }.
SessionToSave(session) ==
  Spread(session,
         [updatedAt |-> now,
          progress |-> calculateProgressUtils(Len(allQuestions), session.responses)])

SendSave(r, session) ==
  Begin(r, [kind |-> "PutSession", id |-> session.id,
            upd |-> SessionToSave(session), from |-> "save"])

\* set({ currentSession: { ...currentSession, currentDomain, currentQuestion },
\*       navigation: { ...navigation, currentDomain, currentQuestion },
\*       unsavedChanges: true })
MoveTo(domainIndex, questionIndex) ==
  /\ currentSession' = Spread(currentSession, [currentDomain |-> domainIndex,
                                               currentQuestion |-> questionIndex])
  /\ navigation' = [currentDomain |-> domainIndex, currentQuestion |-> questionIndex]
  /\ unsavedChanges' = TRUE
  /\ UNCHANGED <<files, dirs, order, now, clientMutexes, sessionMutexes, mutexes,
                 op, call, pc, arg, res, mtx, torn, wrote>>

\* nextQuestion: returns when no session or no domains are loaded or the
\* cursor names no domain; moves to the next question of the domain, else to
\* the first of the next domain; at the end of the last domain it marks the
\* session completed and calls saveSession (nops counts these calls and those
\* of setResponse).
NextQuestion ==
  /\ currentSession # NoEntity /\ currentDomains # NoDomains
  /\ navigation.currentDomain + 1 \in DOMAIN currentDomains
  /\ LET domainIndex == navigation.currentDomain
         questionIndex == navigation.currentQuestion
         currentDomain == currentDomains[domainIndex + 1]
     IN IF questionIndex < Len(currentDomain) - 1
        THEN MoveTo(domainIndex, questionIndex + 1) /\ UNCHANGED nops
        ELSE IF domainIndex < Len(currentDomains) - 1
        THEN MoveTo(domainIndex + 1, 0) /\ UNCHANGED nops
        ELSE /\ nops < MaxOps
             /\ nops' = nops + 1
             /\ currentSession' =
                  Spread(currentSession,
                         [status |-> "completed", completedAt |-> now,
                          currentDomain |-> domainIndex,
                          currentQuestion |-> questionIndex])
             /\ \E r \in Reqs : FreeSlot(r) /\ SendSave(r, currentSession')
             /\ UNCHANGED <<navigation, unsavedChanges>>
  /\ UNCHANGED <<prev, allQuestions, timers, currentDomains, run>>

\* previousQuestion: moves to the question before, else to the last question
\* of the domain before, else stays.
PreviousQuestion ==
  /\ currentSession # NoEntity /\ currentDomains # NoDomains
  /\ LET domainIndex == navigation.currentDomain
         questionIndex == navigation.currentQuestion
     IN IF questionIndex > 0
        THEN MoveTo(domainIndex, questionIndex - 1)
        ELSE IF domainIndex > 0
        THEN MoveTo(domainIndex - 1, Len(currentDomains[domainIndex]) - 1)
        ELSE MoveTo(domainIndex, questionIndex)
  /\ UNCHANGED <<prev, nops, allQuestions, timers, currentDomains, run>>

\* handleAnswer of the assessment page: setResponse for the question under
\* the cursor; the nextQuestion it schedules 800 ms later is NextQuestion.
HandleAnswer ==
  /\ nops < MaxOps
  /\ currentSession # NoEntity /\ currentDomains # NoDomains
  /\ navigation.currentDomain + 1 \in DOMAIN currentDomains
  /\ LET currentDomain == currentDomains[navigation.currentDomain + 1]
     IN /\ navigation.currentQuestion + 1 \in DOMAIN currentDomain
        /\ LET currentQuestion == currentDomain[navigation.currentQuestion + 1]
           IN setResponse(currentQuestion, Manual(currentQuestion, "yes", 0))
  /\ nops' = nops + 1
  /\ UNCHANGED <<files, dirs, order, now, clientMutexes, sessionMutexes, mutexes,
                 op, call, pc, arg, res, mtx, torn, wrote, prev, allQuestions,
                 navigation, currentDomains, run>>

\* ------------------------------------------------- calls of the resolver
\* A caller calls handleAdaptiveLogic for a question and an answer on the
\* responses it holds; run keeps the arguments, the result, and the caller's
\* map as it is after the call.
Resolve ==
  /\ run.calls = 0
  /\ \E i \in DOMAIN allQuestions, a \in TriggerAnswers :
       LET out == handleAdaptiveLogic(allQuestions[i], a, allQuestions,
                                      run.currentResponses, now)
       IN run' = [calls |-> 1, question |-> allQuestions[i], answer |-> a,
                  input |-> run.currentResponses,
                  currentResponses |->
                    InputAfter(run.currentResponses, out.updatedResponses),
                  result |-> out, first |-> out]
  /\ UNCHANGED <<files, dirs, order, now, clientMutexes, sessionMutexes, mutexes,
                 op, call, pc, arg, res, mtx, torn, wrote, prev, nops,
                 allQuestions, currentSession, timers, unsavedChanges, navigation,
                 currentDomains>>

\* The caller calls it again, now or later, with the same question and answer
\* on the map the first call returned.
Again ==
  /\ run.calls = 1
  /\ \E t \in now..MaxTime :
       LET in == run.result.updatedResponses
           out == handleAdaptiveLogic(run.question, run.answer, allQuestions, in, t)
       IN run' = [run EXCEPT !.calls = 2, !.input = in,
                             !.currentResponses = InputAfter(in, out.updatedResponses),
                             !.result = out]
  /\ UNCHANGED <<files, dirs, order, now, clientMutexes, sessionMutexes, mutexes,
                 op, call, pc, arg, res, mtx, torn, wrote, prev, nops,
                 allQuestions, currentSession, timers, unsavedChanges, navigation,
                 currentDomains>>

\* --------------------------------------- calls of calculateProgress (store)
\* The inputs: a total of 0, 1 or 10 questions and up to MaxKeys responses
\* (the keys are numbered; only the values are read), each answered 'yes',
\* skipped by skipQuestion or by the resolver, or answered 'no' with the
\* optional flag autoSkipped set.
MaxKeys == 8
Totals == {0, 1, 10}
CountedAnswers ==
  {[answer |-> "yes"], [answer |-> "skipped", autoSkipped |-> TRUE],
   [answer |-> "no", autoSkipped |-> TRUE]}
CountedMaps == UNION {[1..n -> CountedAnswers] : n \in 0..MaxKeys}

Calculate ==
  /\ run.calls = 0
  /\ run' = [run EXCEPT !.calls = 1,
                        !.result = calculateProgressUtils(run.totalQuestions, run.responses)]
  /\ UNCHANGED <<files, dirs, order, now, clientMutexes, sessionMutexes, mutexes,
                 op, call, pc, arg, res, mtx, torn, wrote, prev, nops,
                 allQuestions, currentSession, timers, unsavedChanges, navigation,
                 currentDomains>>

\* ------------------------------------------------------------ specifications
\* The data directory outlives the process: the store a process starts with is
\* one earlier saves left.  Seed: saveClient of both clients and saveSession of
\* session IdS1 of client IdC1, all at time 1.
SeedSession == NewSession(IdS1, IdC1, FwL1, 0)
SeedStore ==
  [p \in Paths |->
     IF p[2] = ProfileName
     THEN Stringify(Stamp(NewClient(p[1], Undefined, 0), 1))
     ELSE IF p = <<IdC1, FileName(SeedSession.frameworkId, SeedSession.id)>>
          THEN Stringify(Stamp(SeedSession, 1))
          ELSE NoFile]

InitProcess ==
  /\ clientMutexes = [c \in ClientIds |-> 0]
  /\ sessionMutexes = [s \in SessionIds |-> 0]
  /\ mutexes = [m \in Mutexes |-> [holder |-> NoReq, queue |-> <<>>]]
  /\ op = [r \in Reqs |-> NoOp]
  /\ call = [r \in Reqs |-> "none"]
  /\ pc = [r \in Reqs |-> "idle"]
  /\ arg = [r \in Reqs |-> NoEntity]
  /\ res = [r \in Reqs |-> NoRes]
  /\ mtx = [r \in Reqs |-> NoMutex]
  /\ torn = [r \in Reqs |-> FALSE]
  /\ wrote = [r \in Reqs |-> FALSE]
  /\ prev = [op |-> NoOp, res |-> NoRes]
  /\ nops = 0
  /\ now = 1

\* The browser store before a session is opened: currentSession: null,
\* allQuestions: [].
InitBrowser ==
  /\ allQuestions = NoQuestions
  /\ currentSession = NoEntity
  /\ timers = <<>>
  /\ unsavedChanges = FALSE
  /\ navigation = StartCursor
  /\ currentDomains = NoDomains
  /\ run = NoRun

Init ==
  /\ InitProcess
  /\ InitBrowser
  /\ files = SeedStore
  /\ dirs = ClientIds
  /\ order \in ScanOrders

Step(r) ==
  \/ WithLock(r)
  \/ Ensure(r)
  \/ Open(r)
  \/ Write(r)
  \/ Rm(r)
  \/ Scan(r)
  \/ Unlink(r)

\* Concurrent HTTP requests against the seeded store.
Next == \E r \in Reqs : StartRoute(r) \/ Route(r) \/ Step(r)
Spec == Init /\ [][Next]_vars

\* Concurrent calls of the locking store methods against the seeded store.
NextStore == \E r \in Reqs : StartStore(r) \/ Step(r)
SpecStore == Init /\ [][NextStore]_vars

\* Concurrent calls of the locking store methods that share a client directory.
NextGuard == \E r \in Reqs : StartGuard(r) \/ Step(r)
SpecGuard == Init /\ [][NextGuard]_vars

\* Store methods called one after another.
NextSeq == StartSeq \/ Tick \/ Load(1) \/ Step(1)
SpecSeq == Init /\ [][NextSeq]_vars

\* Saves, deletes and listings called one after another.
NextList == StartList \/ Tick \/ List(1) \/ Step(1)
SpecList == Init /\ [][NextList]_vars

\* Sessions created, answered and paused by requests sent one after another,
\* against a store that holds the two clients and no session.
InitProgress ==
  /\ InitProcess
  /\ InitBrowser
  /\ files = [p \in Paths |-> IF p[2] = ProfileName THEN SeedStore[p] ELSE NoFile]
  /\ dirs = ClientIds
  /\ order \in ScanOrders
NextProgress ==
  StartProgress \/ Route(1) \/ WithLock(1) \/ Ensure(1) \/ Open(1) \/ Write(1)
SpecProgress == InitProgress /\ [][NextProgress]_vars

\* handleAdaptiveLogic called on every question set and responses map of the
\* input sets.
InitResolver ==
  /\ InitProcess
  /\ files = SeedStore
  /\ dirs = ClientIds
  /\ order = [clients |-> <<IdC1, IdS1>>, rev |-> FALSE]
  /\ allQuestions \in QuestionSets
  /\ currentSession = NoEntity
  /\ timers = <<>>
  /\ unsavedChanges = FALSE
  /\ navigation = StartCursor
  /\ currentDomains = NoDomains
  /\ run \in {[calls |-> 0, currentResponses |-> m] : m \in ResponseMaps}
NextResolver == Resolve \/ Again
SpecResolver == InitResolver /\ [][NextResolver]_vars

\* calculateProgress of frameworkUtils called on every input of the input sets.
InitCalc ==
  /\ InitProcess
  /\ files = SeedStore
  /\ dirs = ClientIds
  /\ order = [clients |-> <<IdC1, IdS1>>, rev |-> FALSE]
  /\ allQuestions = NoQuestions
  /\ currentSession = NoEntity
  /\ timers = <<>>
  /\ unsavedChanges = FALSE
  /\ navigation = StartCursor
  /\ currentDomains = NoDomains
  /\ run \in {[calls |-> 0, totalQuestions |-> n, responses |-> m, result |-> NoEntity] :
               n \in Totals, m \in CountedMaps}
NextCalc == Calculate
SpecCalc == InitCalc /\ [][NextCalc]_vars

\* The frameworks of SpecAnswer: q1 fails q2 and skips q3 when it is 'no';
\* in the second it also skips both when it is 'na'.
AnswerFrameworks ==
  {<<Question(Q1, d), Question(Q2, NoDependencies), Question(Q3, NoDependencies)>> :
     d \in {Dependencies(<<Q2>>, <<Q3>>, <<>>, <<>>),
            Dependencies(<<Q2>>, <<Q3>>, <<GhostId, Q2, Q3>>, <<>>)}}

\* The domains of those frameworks: q1 and q2 in the first, q3 in the second.
AnswerDomains == <<(<<Q1, Q2>>), (<<Q3>>)>>

\* The browser has opened the seeded session (GET /api/assessments/<id>) and
\* loaded its framework.
InitAnswer ==
  /\ InitProcess
  /\ files = SeedStore
  /\ dirs = ClientIds
  /\ order = [clients |-> <<IdC1, IdS1>>, rev |-> FALSE]
  /\ allQuestions \in AnswerFrameworks
  /\ currentSession = Stamp(SeedSession, 1)
  /\ timers = <<>>
  /\ unsavedChanges = FALSE
  /\ navigation = StartCursor
  /\ currentDomains = AnswerDomains
  /\ run = NoRun

\* The steps of a save.
SaveStep(r) == WithLock(r) \/ Ensure(r) \/ Open(r) \/ Write(r)

\* The browser store sets answers and auto-saves them through the response
\* route, next to the requests of another client.
NextAnswer ==
  \/ SetResponse
  \/ \E r \in Reqs : Fire(r) \/ StartAnswer(r) \/ Route(r) \/ SaveStep(r) \/ Reply(r)
SpecAnswer == InitAnswer /\ [][NextAnswer]_vars

\* The browser store and its auto-save, with no other client.
NextAutoSave ==
  \/ SetResponse
  \/ \E r \in Reqs : Fire(r) \/ Route(r) \/ SaveStep(r) \/ Reply(r)
SpecAutoSave == InitAnswer /\ [][NextAutoSave]_vars

\* The domains of the frameworks of SpecNav: a framework whose domains all
\* have questions, and one with a domain that has none.
NavDomains == {AnswerDomains, <<(<<Q1>>), (<<>>), (<<Q2>>)>>}

InitNav ==
  /\ InitProcess
  /\ files = SeedStore
  /\ dirs = ClientIds
  /\ order = [clients |-> <<IdC1, IdS1>>, rev |-> FALSE]
  /\ allQuestions \in AnswerFrameworks
  /\ currentSession = Stamp(SeedSession, 1)
  /\ timers = <<>>
  /\ unsavedChanges = FALSE
  /\ navigation = StartCursor
  /\ currentDomains \in NavDomains
  /\ run = NoRun

\* The user steps through the questions, forward and back; reaching the end
\* saves the session.
NextNav ==
  \/ NextQuestion
  \/ PreviousQuestion
  \/ \E r \in Reqs : Route(r) \/ SaveStep(r) \/ Reply(r)
SpecNav == InitNav /\ [][NextNav]_vars

\* The user answers and steps forward; answers are auto-saved, the end saves
\* the session.
\* The browser has opened the seeded session of a framework whose questions
\* declare no dependencies.
InitComplete ==
  /\ InitProcess
  /\ files = SeedStore
  /\ dirs = ClientIds
  /\ order = [clients |-> <<IdC1, IdS1>>, rev |-> FALSE]
  /\ allQuestions = <<Question(Q1, NoDependencies), Question(Q2, NoDependencies),
                      Question(Q3, NoDependencies)>>
  /\ currentSession = Stamp(SeedSession, 1)
  /\ timers = <<>>
  /\ unsavedChanges = FALSE
  /\ navigation = StartCursor
  /\ currentDomains = AnswerDomains
  /\ run = NoRun
NextComplete ==
  \/ HandleAnswer
  \/ NextQuestion
  \/ \E r \in Reqs : Fire(r) \/ Route(r) \/ SaveStep(r) \/ Reply(r)
SpecComplete == InitComplete /\ [][NextComplete]_vars

\* The browser store's two ways to record an answer.
NextSkip == SetResponse \/ SkipQuestion
SpecSkip == InitAnswer /\ [][NextSkip]_vars

\* The browser store alone: the answers it holds while no request is sent.
NextBrowser == SetResponse \/ Tick
SpecBrowser == InitAnswer /\ [][NextBrowser]_vars

\* ---------------------------------------------------------------- properties
Done(r) == pc[r] = "done"
InBody(r) == pc[r] \in {"ensure", "open", "write", "rm", "scan", "unlink"}

\* C1: no lost updates.  Once two (all) POST .../response requests against the
\* same session id, each setting a distinct question, have answered 200, the
\* stored session holds both question ids.
C1_NoLostUpdates ==
  \A r1, r2 \in Reqs :
    ( /\ r1 # r2
      /\ \A r \in Reqs : Done(r) \/ pc[r] = "idle"
      /\ op[r1].kind = "PostResponse" /\ op[r2].kind = "PostResponse"
      /\ op[r1].id = op[r2].id /\ op[r1].q # op[r2].q
      /\ res[r1].status = "200" /\ res[r2].status = "200" )
    => LET l == loadSession(files, dirs, order, op[r1].id)
       IN l.found /\ {op[r1].q, op[r2].q} \subseteq DOMAIN l.val.responses

\* The entity a path stores: the client of a profile, the session of a
\* session file.
EntityOf(p) ==
  IF p[2] = ProfileName THEN <<"client", p[1]>>
  ELSE <<"session",
         CHOOSE s \in SessionIds : \E f \in AllFrameworkIds : p[2] = FileName(f, s)>>

\* The requests inside the operation withLock runs for an entity.
InsideFor(e) ==
  {r \in Reqs : InBody(r) /\ LockMap(r) = e[1] /\ LockKey(r) = e[2]}

Entities == ({"client"} \X ClientIds) \cup ({"session"} \X SessionIds)

\* At most one saveClient/deleteClient body per client id and one
\* saveSession/deleteSession body per session id runs at a time.
MutualExclusion == \A e \in Entities : Cardinality(InsideFor(e)) <= 1

\* C2: mutual exclusion per entity, and every write or removal of an entity's
\* file happens while a request is inside withLock for that entity's id.
C2_LockDiscipline ==
  /\ []MutualExclusion
  /\ [][\A p \in Paths :
          files'[p] # files[p] => InsideFor(EntityOf(p)) # {}]_vars

\* The fields a partial update may set without moving the record.
PlainFields == {"status", "mode", "companyName", "industry"}

\* C3: serializability per identifier, in its two named cases.  Two PUTs of
\* disjoint plain fields on one id that both answered 200 both show in the
\* stored record; after a DELETE and a POST .../response on one session id
\* have both answered 200 the session is absent (the POST ran first).
C3_Serializable ==
  \A r1, r2 \in Reqs :
    ( /\ r1 # r2
      /\ \A r \in Reqs : Done(r) \/ pc[r] = "idle"
      /\ Done(r1) /\ Done(r2)
      /\ op[r1].id = op[r2].id
      /\ res[r1].status = "200" /\ res[r2].status = "200" )
    => /\ ( /\ op[r1].kind = op[r2].kind
            /\ op[r1].kind \in {"PutSession", "PutClient"}
            /\ DOMAIN op[r1].upd \cup DOMAIN op[r2].upd \subseteq PlainFields
            /\ DOMAIN op[r1].upd \cap DOMAIN op[r2].upd = {} )
          => LET l == IF op[r1].kind = "PutClient" THEN ClientLoad(op[r1].id)
                      ELSE SessionLoad(op[r1].id)
             IN /\ l.found
                /\ \A k \in DOMAIN op[r1].upd : Field(l.val, k) = op[r1].upd[k]
                /\ \A k \in DOMAIN op[r2].upd : Field(l.val, k) = op[r2].upd[k]
       /\ (op[r1].kind = "DeleteSession" /\ op[r2].kind = "PostResponse")
          => ~SessionLoad(op[r1].id).found

\* C4: atomic save.  No load reads a file that is empty because a writeFile
\* on it is between its open and its write.
C4_AtomicSave == \A r \in Reqs : ~torn[r]

\* C9: the DELETE routes never answer 404.
C9_DeleteNeverNotFound ==
  \A r \in Reqs :
    (Done(r) /\ op[r].kind \in {"DeleteSession", "DeleteClient"})
      => res[r].status # "404"

\* The Mutex objects a request holds.
Held(r) == {m \in Mutexes : mutexes[m].holder = r}

\* A Mutex is held only by a request inside the operation it was taken for,
\* and its queue holds only requests waiting for it: a request that returned
\* or threw holds nothing.
ReleasedOnExit ==
  \A m \in Mutexes :
    /\ mutexes[m].holder # NoReq
         => InBody(mutexes[m].holder) /\ mtx[mutexes[m].holder] = m
    /\ \A i \in 1..Len(mutexes[m].queue) :
         pc[mutexes[m].queue[i]] = "queued" /\ mtx[mutexes[m].queue[i]] = m

\* A request holds at most one Mutex, and none while it waits for one.
NoHoldAndWait ==
  \A r \in Reqs :
    /\ Cardinality(Held(r)) <= 1
    /\ pc[r] \in {"withLock", "queued"} => Held(r) = {}

\* Every await of a store method completes (the file system answers), and the
\* event loop runs every continuation that is ready.
SpecGuardFair == SpecGuard /\ \A r \in Reqs : WF_vars(Step(r))

\* C5: the Mutex is released when the operation returns and when it throws;
\* hence every save or delete that calls withLock completes; and no request
\* holds one Mutex while it waits for another.
C5_ReleaseAndProgress ==
  /\ [](ReleasedOnExit /\ NoHoldAndWait)
  /\ \A r \in Reqs : (pc[r] \in {"withLock", "queued"}) ~> Done(r)

\* A save threw and released: another request holds the same Mutex afterwards.
C5_Witness ==
  \E r1, r2 \in Reqs :
    /\ r1 # r2
    /\ Done(r1) /\ res[r1].status = "throw"
    /\ mtx[r2] = mtx[r1] /\ mutexes[mtx[r2]].holder = r2

\* A request waits only behind a request that is inside withLock for the same
\* map and the same key.
WaitsOnlyForSameId ==
  \A r \in Reqs :
    pc[r] = "queued"
      => LET h == mutexes[mtx[r]].holder
         IN /\ h \in Reqs \ {r}
            /\ InBody(h)
            /\ (call[h] \in ClientCalls) = (call[r] \in ClientCalls)
            /\ LockKey(h) = LockKey(r)

\* The callers that named the same identifier got the same Mutex object.
SameMutexPerId ==
  \A r1, r2 \in Reqs :
    ( /\ mtx[r1] # NoMutex /\ mtx[r2] # NoMutex
      /\ (call[r1] \in ClientCalls) = (call[r2] \in ClientCalls)
      /\ LockKey(r1) = LockKey(r2) )
    => mtx[r1] = mtx[r2]

\* A map entry, once set, stays what it is.
NeverRemoved ==
  /\ \A c \in ClientIds : clientMutexes[c] # 0 => clientMutexes'[c] = clientMutexes[c]
  /\ \A i \in SessionIds : sessionMutexes[i] # 0 => sessionMutexes'[i] = sessionMutexes[i]

\* C6: an operation blocks only operations on the same identifier of the same
\* map; all callers naming an identifier share one Mutex object, which is
\* created on first use and never removed.
C6_IndependentProgress ==
  /\ [](WaitsOnlyForSameId /\ SameMutexPerId)
  /\ [][NeverRemoved]_vars

\* A client operation and a session operation on the same id string are inside
\* withLock together.
C6_Witness ==
  \E r1, r2 \in Reqs :
    /\ InBody(r1) /\ InBody(r2)
    /\ call[r1] \in ClientCalls /\ call[r2] \in SessionCalls
    /\ LockKey(r1) = LockKey(r2)

\* Equal in every field but the stamped timestamps.
EqualButTimestamps(a, b) ==
  \A k \in (DOMAIN a \cup DOMAIN b) \ {"createdAt", "updatedAt"} :
     Field(a, k) = Field(b, k)

\* The caller of SpecSeq has just completed `kind` right after `before`.
JustAfter(before, kind) ==
  /\ Done(1) /\ op[1].kind = kind
  /\ prev.op.kind = before /\ prev.res.status = "ok"

\* Save of a client, then Load of its id, returns the saved value.
RoundTripClient ==
  (JustAfter("saveClient", "loadClient") /\ op[1].id = prev.op.val.id)
    => /\ res[1].status = "ok" /\ res[1].found
       /\ EqualButTimestamps(res[1].val, prev.op.val)

\* Save of a session, then Load of its id, returns the saved value.
RoundTripSession ==
  (JustAfter("saveSession", "loadSession") /\ op[1].id = prev.op.val.id)
    => /\ res[1].status = "ok" /\ res[1].found
       /\ EqualButTimestamps(res[1].val, prev.op.val)

\* C7: round trip.  A Save that returned, followed by a Load of the same id,
\* yields the saved value in every field but the timestamps, whatever else the
\* store holds.
C7_RoundTrip == RoundTripClient /\ RoundTripSession

\* C8: idempotent delete.  A deleteClient / deleteSession never throws, and the
\* second of two deletes of one id in a row leaves the files as they were.
C8_IdempotentDelete ==
  /\ (Done(1) /\ op[1].kind \in {"deleteClient", "deleteSession"})
       => res[1].status = "ok"
  /\ \A k \in {"deleteClient", "deleteSession"} :
       (JustAfter(k, k) /\ op[1].id = prev.op.id) => ~wrote[1]

\* The files that back a session id.
BackingFiles(sid) ==
  {p \in Paths : \E f \in AllFrameworkIds : p[2] = FileName(f, sid) /\ files[p] # NoFile}

\* C10: a load reports absence (null, no error) only when no backing file
\* exists; a file that does not parse makes the load fail instead.
C10_AbsenceIsNotFailure ==
  /\ (Done(1) /\ op[1].kind = "loadClient" /\ res[1].status = "ok" /\ ~res[1].found)
       => files[<<op[1].id, ProfileName>>] = NoFile
  /\ (Done(1) /\ op[1].kind = "loadSession" /\ res[1].status = "ok" /\ ~res[1].found)
       => BackingFiles(op[1].id) = {}

\* C10 for clients only: loadClient returns null only when profile.json is
\* absent, and throws when it does not parse.
LoadClientDistinguishes ==
  (Done(1) /\ op[1].kind = "loadClient")
    => /\ (res[1].status = "ok" /\ ~res[1].found)
            <=> files[<<op[1].id, ProfileName>>] = NoFile
       /\ res[1].status = "throw" <=> files[<<op[1].id, ProfileName>>] = Truncated

\* The records of a listed collection that deserialize.
Deserializable(kind, c) ==
  IF kind = "listClients"
  THEN {Parse(files[<<d, ProfileName>>]).val :
          d \in {x \in ClientIds : Parse(files[<<x, ProfileName>>]).ok}}
  ELSE {Parse(files[<<c, n>>]).val :
          n \in {x \in SessionNames : Parse(files[<<c, x>>]).ok}}

\* The records of a listed collection that are corrupt.
Corrupt(kind, c) ==
  IF kind = "listClients"
  THEN {<<d, ProfileName>> : d \in {x \in ClientIds : files[<<x, ProfileName>>] = Truncated}}
  ELSE {<<c, n>> : n \in {x \in SessionNames : files[<<c, x>>] = Truncated}}

Listed(r) == {res[r].val[i] : i \in DOMAIN res[r].val}

\* C11: a listing returns (never throws) and returns exactly the stored
\* records of the collection that deserialize, each once, whatever other
\* records of the collection are corrupt.
C11_ListToleratesCorrupt ==
  (Done(1) /\ op[1].kind \in ListCalls)
    => /\ res[1].status = "ok"
       /\ Listed(1) = Deserializable(op[1].kind, op[1].id)
       /\ Len(res[1].val) = Cardinality(Listed(1))

\* A listing of a collection with a corrupt record returned a valid record.
C11_Witness ==
  /\ Done(1) /\ op[1].kind \in ListCalls
  /\ Corrupt(op[1].kind, op[1].id) # {}
  /\ Len(res[1].val) >= 1

\* C12: a listing is sorted by descending updatedAt; records with equal
\* updatedAt are ordered by createdAt, so that when no two listed records
\* agree in both, the result is the same under every enumeration order of the
\* directory.
C12_DeterministicOrder ==
  (Done(1) /\ op[1].kind \in ListCalls)
    => LET l == res[1].val
       IN /\ \A i, j \in DOMAIN l : i < j => l[i].updatedAt >= l[j].updatedAt
          /\ (\A i, j \in DOMAIN l :
                 i # j => <<l[i].updatedAt, l[i].createdAt>>
                            # <<l[j].updatedAt, l[j].createdAt>>)
               => \A o \in ScanOrders :
                    l = IF op[1].kind = "listClients"
                        THEN listClients(files, dirs, o)
                        ELSE listClientSessions(files, o, op[1].id)

\* The half of C12 that holds: a listing is sorted by descending updatedAt.
SortedByUpdatedAt ==
  (Done(1) /\ op[1].kind \in ListCalls)
    => \A i, j \in DOMAIN res[1].val :
         i < j => res[1].val[i].updatedAt >= res[1].val[j].updatedAt

\* ----------------------------------------------- properties of the resolver
\* The ids a list of the triggering question names that are questions of the set.
TargetsOf(k) ==
  {id \in Elems(DepList(run.question, k)) :
     \E i \in DOMAIN allQuestions : allQuestions[i].id = id}
DirectTargets ==
  UNION {Elems(DepList(run.question, k)) :
           k \in {"autoFail", "skipIfNo", "skipIfNA", "enables"}}

EndsAutoFailed(m, id) ==
  id \in DOMAIN m /\ m[id].answer = "no" /\ Flag(m[id], "autoFailed")
EndsAutoSkipped(m, id) ==
  id \in DOMAIN m /\ m[id].answer = "skipped" /\ Flag(m[id], "autoSkipped")

\* An answer entered by hand: neither autoFailed nor autoSkipped.
EnteredByHand(m, id) ==
  /\ id \in DOMAIN m
  /\ ("autoFailed" \in DOMAIN m[id] => ~m[id].autoFailed)
  /\ ("autoSkipped" \in DOMAIN m[id] => ~m[id].autoSkipped)

\* Another question than the trigger lists id under enables and holds 'yes'
\* in the map m.
AnotherEnablerHoldsYes(m, id) ==
  \E i \in DOMAIN allQuestions :
     LET q == allQuestions[i]
     IN /\ q.id # run.question.id
        /\ q.dependencies # NoDependencies
        /\ \E j \in DOMAIN q.dependencies.enables : q.dependencies.enables[j] = id
        /\ q.id \in DOMAIN m /\ m[q.id].answer = "yes"

LeftAsItWas(in, out, id) ==
  IF id \in DOMAIN in THEN id \in DOMAIN out /\ out[id] = in[id]
  ELSE id \notin DOMAIN out

FirstCall == run.calls = 1

\* C13 as stated: after a call with 'no' every autoFail target of the set is
\* 'no' with autoFailed and every skipIfNo target 'skipped' with autoSkipped;
\* after a call with 'na' every skipIfNA target is 'skipped' with autoSkipped.
C13_CascadeAsStated ==
  FirstCall =>
    LET out == run.result.updatedResponses
    IN /\ run.answer = "no" =>
            /\ \A id \in TargetsOf("autoFail") : EndsAutoFailed(out, id)
            /\ \A id \in TargetsOf("skipIfNo") : EndsAutoSkipped(out, id)
       /\ run.answer = "na" =>
            \A id \in TargetsOf("skipIfNA") : EndsAutoSkipped(out, id)

\* C13, amended: the same, except that an autoFail target which a later rule
\* of the same call also sets (it is a skipIfNo target as well, or an enables
\* target no other question holding 'yes' enables) ends 'skipped' with
\* autoSkipped.
C13_Cascade ==
  FirstCall =>
    LET out == run.result.updatedResponses
        later(id) ==
          \/ id \in TargetsOf("skipIfNo")
          \/ id \in TargetsOf("enables") /\ ~AnotherEnablerHoldsYes(run.input, id)
    IN /\ run.answer = "no" =>
            /\ \A id \in TargetsOf("autoFail") :
                 IF later(id) THEN EndsAutoSkipped(out, id)
                 ELSE EndsAutoFailed(out, id)
            /\ \A id \in TargetsOf("skipIfNo") : EndsAutoSkipped(out, id)
       /\ run.answer = "na" =>
            \A id \in TargetsOf("skipIfNA") : EndsAutoSkipped(out, id)

\* A 'no' auto-failed a target that held an answer entered by hand, and
\* skipped a target that is both an autoFail and a skipIfNo target.
C13_Witness ==
  /\ FirstCall /\ run.answer = "no"
  /\ \E id \in TargetsOf("autoFail") \ (TargetsOf("skipIfNo") \cup TargetsOf("enables")) :
       EnteredByHand(run.input, id) /\ EndsAutoFailed(run.result.updatedResponses, id)
  /\ \E id \in TargetsOf("autoFail") \cap TargetsOf("skipIfNo") :
       EndsAutoSkipped(run.result.updatedResponses, id)

\* C14 as stated: a call with 'no' returns unchanged every enables target that
\* held an answer entered by hand, whichever other lists name it.
C14_NoOverwriteAsStated ==
  (FirstCall /\ run.answer = "no") =>
    \A id \in TargetsOf("enables") :
      EnteredByHand(run.input, id)
        => run.result.updatedResponses[id] = run.input[id]

\* C14, amended: ... provided the target is not also an autoFail or skipIfNo
\* target of the triggering question.
C14_NoOverwrite ==
  (FirstCall /\ run.answer = "no") =>
    \A id \in TargetsOf("enables") \ (TargetsOf("autoFail") \cup TargetsOf("skipIfNo")) :
      EnteredByHand(run.input, id)
        => run.result.updatedResponses[id] = run.input[id]

\* A 'no' left alone an enables target answered by hand that no other question
\* enables, while it skipped another enables target.
C14_Witness ==
  /\ FirstCall /\ run.answer = "no"
  /\ \E id \in TargetsOf("enables") \ (TargetsOf("autoFail") \cup TargetsOf("skipIfNo")) :
       /\ EnteredByHand(run.input, id)
       /\ ~AnotherEnablerHoldsYes(run.input, id)
       /\ run.result.updatedResponses[id] = run.input[id]
  /\ \E id \in TargetsOf("enables") :
       /\ id \notin DOMAIN run.input
       /\ EndsAutoSkipped(run.result.updatedResponses, id)

\* What rule 4 writes for a target.
SetByRule4(out, id) ==
  /\ id \in DOMAIN out
  /\ out[id].answer = "skipped" /\ Flag(out[id], "autoSkipped")
  /\ out[id].skipReason[1] = "Skipped because enabling control"

\* C15 as stated: after a call with 'no', an enables target of the set that
\* held no answer or a synthesized one is set to 'skipped' with autoSkipped
\* when no other question that enables it holds 'yes', and is left as it was
\* when one does.
C15_EnablesAsStated ==
  (FirstCall /\ run.answer = "no") =>
    \A id \in TargetsOf("enables") :
      ~EnteredByHand(run.input, id)
        => IF AnotherEnablerHoldsYes(run.input, id)
           THEN LeftAsItWas(run.input, run.result.updatedResponses, id)
           ELSE SetByRule4(run.result.updatedResponses, id)

\* C15, amended: ... and is left as rules 1 and 2 of the same call leave it
\* when one does: as it was, unless it is also an autoFail or skipIfNo target.
C15_Enables ==
  (FirstCall /\ run.answer = "no") =>
    \A id \in TargetsOf("enables") :
      ~EnteredByHand(run.input, id)
        => IF AnotherEnablerHoldsYes(run.input, id)
           THEN IF id \in TargetsOf("skipIfNo")
                THEN EndsAutoSkipped(run.result.updatedResponses, id)
                       /\ ~SetByRule4(run.result.updatedResponses, id)
                ELSE IF id \in TargetsOf("autoFail")
                THEN EndsAutoFailed(run.result.updatedResponses, id)
                ELSE LeftAsItWas(run.input, run.result.updatedResponses, id)
           ELSE SetByRule4(run.result.updatedResponses, id)

\* A 'no' left an unanswered enables target unanswered because another
\* question that enables it holds 'yes', and skipped another enables target.
C15_Witness ==
  /\ FirstCall /\ run.answer = "no"
  /\ \E id \in TargetsOf("enables") :
       /\ id \notin DOMAIN run.input
       /\ AnotherEnablerHoldsYes(run.input, id)
       /\ id \notin DOMAIN run.result.updatedResponses
  /\ \E id \in TargetsOf("enables") :
       /\ ~AnotherEnablerHoldsYes(run.input, id)
       /\ SetByRule4(run.result.updatedResponses, id)

\* Equal in every property but the timestamp.
SameAnswer(a, b) ==
  /\ DOMAIN a = DOMAIN b
  /\ \A k \in DOMAIN a \ {"timestamp"} : a[k] = b[k]

\* C16: the second call, with the same question and answer on the map the
\* first call returned, returns a map with the same keys and, for each key,
\* the same answer, flags, skipReason and notes.
C16_ResolverIdempotent ==
  run.calls = 2 =>
    LET a == run.first.updatedResponses
        b == run.result.updatedResponses
    IN /\ DOMAIN a = DOMAIN b
       /\ \A k \in DOMAIN a : SameAnswer(a[k], b[k])

\* C17: a call removes no key and leaves the caller's map as it was; every key
\* that is not named by a list of the triggering question keeps its answer
\* (and no such key is added); a question without dependencies, or an answer
\* other than 'no' and 'na', returns the input map.
C17_OneHopDelta ==
  run.calls >= 1 =>
    LET in == run.input
        out == run.result.updatedResponses
    IN /\ DOMAIN in \subseteq DOMAIN out
       /\ run.currentResponses = in
       /\ \A k \in DOMAIN out \ DirectTargets : LeftAsItWas(in, out, k)
       /\ \A k \in DOMAIN in \ DirectTargets : LeftAsItWas(in, out, k)
       /\ (run.question.dependencies = NoDependencies
             \/ run.answer \notin {"no", "na"}) => out = in

\* A 'no' on q1 auto-failed q3, which declares q2 as its own autoFail target
\* and enables q1 in turn; q2, not a target of q1, kept its 'yes'.
C17_Witness ==
  /\ FirstCall /\ run.answer = "no" /\ run.question.id = Q1
  /\ Q3 \in TargetsOf("autoFail") /\ Q3 \in TargetsOf("enables")
  /\ Q2 \notin DirectTargets
  /\ allQuestions[3].dependencies # NoDependencies
  /\ Q2 \in Elems(DepList(allQuestions[3], "autoFail"))
  /\ Q1 \in Elems(DepList(allQuestions[3], "enables"))
  /\ Q2 \in DOMAIN run.input /\ run.input[Q2].answer = "yes"
  /\ run.result.updatedResponses[Q2] = run.input[Q2]
  /\ \/ EndsAutoFailed(run.result.updatedResponses, Q3)
     \/ EndsAutoSkipped(run.result.updatedResponses, Q3)

\* The last call of setResponse that got past its guard was for question q
\* with the entered answer a: this step set its timer.
SetsResponse(q, a) ==
  /\ Len(timers') = Len(timers) + 1
  /\ timers'[Len(timers')].q = q
  /\ timers'[Len(timers')].a.answer = a

\* q1 holds 'no', and that answer has auto-failed q2 and auto-skipped q3.
NoHasCascaded ==
  /\ currentSession # NoEntity
  /\ Q1 \in DOMAIN currentSession.responses
  /\ currentSession.responses[Q1].answer = "no"
  /\ EndsAutoFailed(currentSession.responses, Q2)
  /\ EndsAutoSkipped(currentSession.responses, Q3)

\* The session's responses hold for id exactly what they held.
KeepsResponse(id) ==
  /\ id \in DOMAIN currentSession'.responses
  /\ currentSession'.responses[id] = currentSession.responses[id]

\* C18 as stated: once q1 = 'no' has auto-failed q2 and auto-skipped q3, a
\* setResponse that changes q1 to any other answer leaves the answers of q2
\* and q3 exactly as they were.
C18_NotClearedAsStated ==
  [][\A a \in TriggerAnswers \ {"no"} :
       (NoHasCascaded /\ SetsResponse(Q1, a)) => KeepsResponse(Q2) /\ KeepsResponse(Q3)]_vars

\* C18: once q1 = 'no' has auto-failed q2 and auto-skipped q3, a setResponse
\* that changes q1 to another answer leaves the answers of q2 and q3 exactly
\* as they were, except that a change to 'na' sets each of them that q1 lists
\* under skipIfNA to 'skipped' with autoSkipped, as rule 3 says.
C18_NotCleared ==
  [][\A a \in TriggerAnswers \ {"no"} :
       (NoHasCascaded /\ SetsResponse(Q1, a)) =>
          \A id \in {Q2, Q3} :
             IF a = "na" /\ id \in Elems(DepList(allQuestions[1], "skipIfNA"))
             THEN currentSession'.responses[id] =
                    SkipIfNAAnswer(allQuestions[1],
                                   FindQuestion(allQuestions, id), now)
             ELSE KeepsResponse(id)]_vars

\* q1 was 'no', cascaded, and was then changed to 'yes': q2 is still
\* auto-failed and q3 still auto-skipped.
C18_Witness ==
  /\ Len(timers) = 2
  /\ timers[1].q = Q1 /\ timers[1].a.answer = "no"
  /\ timers[2].q = Q1 /\ timers[2].a.answer = "yes"
  /\ currentSession.responses[Q1].answer = "yes"
  /\ EndsAutoFailed(currentSession.responses, Q2)
  /\ EndsAutoSkipped(currentSession.responses, Q3)

\* The session file of the seeded session, deserialized.
StoredSession ==
  Parse(files[<<IdC1, FileName(SeedSession.frameworkId, SeedSession.id)>>]).val

\* Every setResponse has been auto-saved: no timer waits, no request is in
\* flight, and the last auto-save was answered 200.
AutoSaved ==
  /\ timers = <<>>
  /\ \A r \in Reqs : pc[r] = "idle"
  /\ ~unsavedChanges
  /\ currentSession.responses # NoResponses

\* C19: after setResponse and its auto-save have completed, the stored
\* session holds every answer the in-memory session holds, the synthesized
\* ones included, with the same answer, provenance flags and skipReason.
C19_PersistsResolverResult ==
  AutoSaved =>
    \A id \in DOMAIN currentSession.responses :
       /\ id \in DOMAIN StoredSession.responses
       /\ \A k \in {"answer", "autoFailed", "autoSkipped", "skipReason"} :
            Field(StoredSession.responses[id], k)
              = Field(currentSession.responses[id], k)

\* A request to set an answer whose payload lacks questionId or answer, or
\* whose questionId is no question of the framework.
InvalidMutation(o) ==
  /\ o.kind = "PostResponse"
  /\ \/ ~({"q", "a"} \subseteq DOMAIN o)
     \/ FindQuestion(allQuestions, o.q) = NoQuestion

\* A request without questionId or answer is answered 400 and writes nothing.
MalformedRejected ==
  [][\A r \in Reqs :
       (op[r].kind = "PostResponse" /\ ~({"q", "a"} \subseteq DOMAIN op[r])
          /\ pc[r] # "idle" /\ pc'[r] # pc[r])
         => files' = files /\ (pc'[r] = "done" => res'[r].status = "400")]_vars

\* C20: no step of an invalid request to set an answer changes the stored
\* files, and the request is not answered 200.
C20_InvalidRejected ==
  [][\A r \in Reqs :
       (InvalidMutation(op[r]) /\ pc[r] # "idle" /\ pc'[r] # pc[r])
         => files' = files /\ (pc'[r] = "done" => res'[r].status # "200")]_vars

\* The stored sessions: the session files that deserialize.
SessionPaths == {p \in Paths : p[2] # ProfileName}
StoredSessions ==
  {Parse(files[p]).val : p \in {x \in SessionPaths : Parse(files[x]).ok}}

\* The responses of a session by kind.
NonSkipped(s) == {q \in DOMAIN s.responses : s.responses[q].answer # "skipped"}
Skipped(s) == {q \in DOMAIN s.responses : s.responses[q].answer = "skipped"}

\* C21: in every stored session progress.answeredQuestions is the number of
\* responses whose kind is not 'skipped', and progress.completionPercentage
\* is round(100 * (answered + skipped) / totalQuestions) (0 for a total of 0).
C21_ProgressInSync ==
  \A s \in StoredSessions :
     /\ s.progress.answeredQuestions = Cardinality(NonSkipped(s))
     /\ s.progress.completionPercentage =
          IF s.progress.totalQuestions > 0
          THEN RoundPct(Cardinality(NonSkipped(s)) + Cardinality(Skipped(s)),
                        s.progress.totalQuestions)
          ELSE 0

\* C27: the completion percentage of every stored session, and the one a
\* POST .../response is about to save and return, is between 0 and 100.
C27_PercentageBounded ==
  /\ \A s \in StoredSessions : s.progress.completionPercentage \in 0..100
  /\ \A r \in Reqs :
       (op[r].kind = "PostResponse" /\ call[r] = "saveSession")
         => arg[r].progress.completionPercentage \in 0..100

\* The responses of a map by kind.
OfKind(m, skipped) == {q \in DOMAIN m : (m[q].answer = "skipped") = skipped}

\* C22: calculateProgress(totalQuestions, responses) returns the number of
\* responses whose kind is not 'skipped' as answeredQuestions and the number
\* whose kind is 'skipped' as skippedQuestions, counts each response once,
\* and returns round(100 * (answered + skipped) / totalQuestions) as
\* percentage, 0 for a total of 0; 6 non-skipped and 2 skipped of 10 give 80.
C22_ProgressArithmetic ==
  run.calls = 1 =>
    LET m == run.responses
        out == run.result
    IN /\ out.answeredQuestions = Cardinality(OfKind(m, FALSE))
       /\ out.skippedQuestions = Cardinality(OfKind(m, TRUE))
       /\ out.answeredQuestions + out.skippedQuestions = Cardinality(DOMAIN m)
       /\ out.percentage =
            IF run.totalQuestions > 0
            THEN RoundPct(Cardinality(DOMAIN m), run.totalQuestions)
            ELSE 0
       /\ (/\ run.totalQuestions = 10
           /\ Cardinality(OfKind(m, FALSE)) = 6
           /\ Cardinality(OfKind(m, TRUE)) = 2) => out.percentage = 80

\* On the maps whose autoSkipped responses are all of kind 'skipped' the
\* arithmetic is as C22 says.
ArithmeticOnSkippedKinds ==
  (run.calls = 1 /\ \A q \in DOMAIN run.responses :
                       CountsAsSkipped(run.responses[q])
                         => run.responses[q].answer = "skipped")
    => LET m == run.responses
           out == run.result
       IN /\ out.answeredQuestions = Cardinality(OfKind(m, FALSE))
          /\ out.skippedQuestions = Cardinality(OfKind(m, TRUE))
          /\ out.percentage =
               IF run.totalQuestions > 0
               THEN RoundPct(Cardinality(DOMAIN m), run.totalQuestions)
               ELSE 0

\* An answer the Dependency Resolver writes: what one of its four rules
\* synthesizes for a target question of the framework.
ResolverRules == {"autoFail", "skipIfNo", "skipIfNA", "enables"}
FromResolver(a) ==
  \E rule \in ResolverRules, i, j \in DOMAIN allQuestions, ts \in 0..MaxTime :
     a = Synthesize(rule, allQuestions[i], allQuestions[j], ts)

\* C24: every response of the session in the store that carries autoFailed or
\* autoSkipped has a non-empty skipReason and is an answer the resolver
\* synthesized.
C24_Provenance ==
  \A q \in DOMAIN currentSession.responses :
     LET a == currentSession.responses[q]
     IN (Flag(a, "autoFailed") \/ Flag(a, "autoSkipped"))
          => /\ "skipReason" \in DOMAIN a
             /\ a.skipReason # <<>>
             /\ FromResolver(a)

\* The static order of the questions: the cursors (domain, question) of the
\* loaded framework, by domain and then by question.
Cursors ==
  {c \in (0..(Len(currentDomains) - 1)) \X (0..MaxKeys) :
     c[2] < Len(currentDomains[c[1] + 1])}
CursorBefore(a, b) == a[1] < b[1] \/ (a[1] = b[1] /\ a[2] < b[2])
CursorRank(c) == Cardinality({b \in Cursors : CursorBefore(b, c)})
CursorOf(nav) == <<nav.currentDomain, nav.currentQuestion>>
AtLastQuestion == CursorRank(CursorOf(navigation)) = Cardinality(Cursors) - 1

\* A step that moves the cursor moves it to the question that follows in the
\* static order.
MovesToFollowing ==
  navigation' # navigation
    => /\ CursorOf(navigation') \in Cursors
       /\ CursorRank(CursorOf(navigation')) = CursorRank(CursorOf(navigation)) + 1

\* The step that completes the session is taken at the last question, leaves
\* the cursor there, stamps completedAt and sends the save.
CompletesAtEnd ==
  (currentSession.status # "completed" /\ currentSession'.status = "completed")
    => /\ AtLastQuestion
       /\ navigation' = navigation
       /\ currentSession'.completedAt # 0
       /\ \E r \in Reqs : pc[r] = "idle" /\ pc'[r] = "route"
                           /\ op'[r].kind = "PutSession"
                           /\ op'[r].upd.status = "completed"

\* The save of the completed session and every auto-save have finished, and
\* every request was answered 200.
SavesFinished ==
  /\ currentSession.status = "completed"
  /\ timers = <<>>
  /\ \A r \in Reqs : pc[r] = "idle" /\ (op[r] # NoOp => res[r].status = "200")
  /\ \E r \in Reqs : op[r] # NoOp /\ op[r].kind = "PutSession"

\* C23: nextQuestion moves the cursor to the following question of the static
\* order; at the last question it leaves the cursor, sets status 'completed',
\* stamps completedAt and sends a save; and once that save and the auto-saves
\* have finished the stored session is 'completed'.
C23_LinearCompletion ==
  /\ [][MovesToFollowing /\ CompletesAtEnd]_vars
  /\ [](SavesFinished => Field(StoredSession, "status") = "completed")

\* The navigation part of C23 alone.
NavigationLinear == [][MovesToFollowing /\ CompletesAtEnd]_vars

\* The cursor names a question of the loaded framework.
CursorInRange == CursorOf(navigation) \in Cursors

\* The session's cursor is the navigation state's.
SessionCursorMatches ==
  /\ currentSession.currentDomain = navigation.currentDomain
  /\ currentSession.currentQuestion = navigation.currentQuestion

\* C29: after any sequence of nextQuestion and previousQuestion calls the
\* cursor names a domain and a question of that domain, and the session's
\* currentDomain / currentQuestion equal the navigation state's.
C29_CursorValid == CursorInRange /\ SessionCursorMatches

\* What the store holds has been persisted: every answer entered by hand is
\* stored with the same answer, and the stored cursor is the current one.
Persisted ==
  /\ \A q \in DOMAIN currentSession.responses :
       EnteredByHand(currentSession.responses, q)
         => /\ q \in DOMAIN StoredSession.responses
            /\ StoredSession.responses[q].answer = currentSession.responses[q].answer
  /\ StoredSession.currentDomain = navigation.currentDomain
  /\ StoredSession.currentQuestion = navigation.currentQuestion

\* C30: whenever unsavedChanges is false, the answers setResponse recorded
\* and the cursor have been persisted.
C30_UnsavedChangesTruthful ==
  (~unsavedChanges /\ Parse(files[<<IdC1, FileName(SeedSession.frameworkId,
                                                   SeedSession.id)>>]).ok)
    => Persisted

\* A loadSession that finds a record finds the record of the id it was given.
LoadReturnsRequested ==
  (Done(1) /\ op[1].kind = "loadSession" /\ res[1].found)
    => res[1].val.id = op[1].id

\* A deleteSession removes no file but one named after the id it was given.
DeleteRemovesOwnFile ==
  [][(op[1].kind = "deleteSession" /\ pc[1] = "unlink")
       => \A p \in Paths :
            files'[p] # files[p]
              => \E f \in AllFrameworkIds : p[2] = FileName(f, op[1].id)]_vars

\* C25: loadSession(id) returns absence or a session whose id is the
\* requested one, also when another session's file name contains the id, and
\* deleteSession(id) removes no other session's file.
C25_LookupExact == []LoadReturnsRequested /\ DeleteRemovesOwnFile

\* No request is running.
Quiescent == \A r \in Reqs : pc[r] \in {"idle", "done"}

\* C26: once the requests have finished, the store holds at most one file for
\* a session id.
C26_OneRecordPerSession ==
  Quiescent => \A s \in SessionIds : Cardinality(BackingFiles(s)) <= 1

\* C28: once the requests have finished, every stored session file lies under
\* a client whose profile is stored.
C28_ReferentialIntegrity ==
  Quiescent =>
    \A p \in SessionPaths :
       files[p] # NoFile => files[<<p[1], ProfileName>>] # NoFile

====
